---------------------------- MODULE Spec2Model ----------------------------
(***************************************************************************)
(* A model of the typed command codecs of the LakeShore 370 driver         *)
(* (src/analogreadout/external/lakeshore370ac/types.py).                   *)
(*                                                                         *)
(* A codec is built once by a constructor and then used through dump       *)
(* (encode: user value -> wire token) and load (decode: wire token -> user *)
(* value).  Wire tokens and Python strings are sequences of characters, so *)
(* that parsing and formatting are computed, not assumed.                  *)
(***************************************************************************)
EXTENDS Integers, Sequences, FiniteSets, TLC

(***************************************************************************)
(* Bounds of the model.                                                    *)
(***************************************************************************)
MaxTokLen == 2      \* every token over Alphabet up to this length is an input
MaxKeys   == 2      \* length of the key / item lists given to constructors
MaxInt    == 2      \* small integers given as values and bounds: -1..MaxInt
MaxIters  == 2      \* iterations begun over one Stream
MaxTake   == 4      \* items a caller takes from one iteration
MaxLen    == 3      \* small buffer lengths of a Curve: 1..MaxLen

(***************************************************************************)
(* Python values.  Every value is a record [t, v], t being the type tag.   *)
(*   int   : v = <<h, l>> stands for h * 2^53 + l, h in {-1, 0, 1} and l   *)
(*           small; 2^53 is where a double stops holding every integer     *)
(*   float : v = <<h, n>> stands for h * 2^53 + n / Scale                  *)
(*   str   : v = the sequence of its characters                            *)
(*   bool  : v = TRUE / FALSE;   none : None                               *)
(***************************************************************************)
None     == [t |-> "none", v |-> 0]
PyBool(b) == [t |-> "bool", v |-> b]
BigInt(h, l) == [t |-> "int", v |-> <<h, l>>]
PyInt(n) == BigInt(0, n)
PyFloat(h, n) == [t |-> "float", v |-> <<h, n>>]
PyStr(s) == [t |-> "str", v |-> s]

RECURSIVE Pow10(_)
Pow10(k) == IF k = 0 THEN 1 ELSE 10 * Pow10(k - 1)

\* Denominator of the fixed-point floats: enough for every fraction a token
\* of the model can spell.
Scale == Pow10(MaxTokLen)

\* Python truth value, as used by `x and f(x)` and `x or y`.
Truthy(x) ==
    CASE x.t = "none"  -> FALSE
      [] x.t = "bool"  -> x.v
      [] x.t = "int"   -> x.v # <<0, 0>>
      [] x.t = "float" -> x.v # <<0, 0>>
      [] x.t = "str"   -> x.v # <<>>
      [] OTHER         -> TRUE

\* The outcome of a call: a returned value, or the exception raised, with
\* the step of the call that raised it.
Ok(val) == [exc |-> "", at |-> "", val |-> val]
Raise(exc, at) == [exc |-> exc, at |-> at, val |-> None]
IsOk(r) == r.exc = ""

(***************************************************************************)
(* Numbers: comparison, decimal spelling, parsing, double rounding.        *)
(***************************************************************************)
\* a < b on <<h, l>> pairs (|l| stays far below 2^53).
PairLt(a, b) == a[1] < b[1] \/ (a[1] = b[1] /\ a[2] < b[2])
PairNeg(a) == <<-a[1], -a[2]>>

Digits == <<"0", "1", "2", "3", "4", "5", "6", "7", "8", "9">>
IsDigit(c) == \E d \in 1..10 : Digits[d] = c
DigitVal(c) == (CHOOSE d \in 1..10 : Digits[d] = c) - 1
AllDigits(s) == \A i \in 1..Len(s) : IsDigit(s[i])

\* str(2 ** 53) = "9007199254740992"
Dec53 == <<"9", "0", "0", "7", "1", "9", "9", "2", "5", "4", "7", "4", "0", "9", "9", "2">>
Dec53Head == SubSeq(Dec53, 1, Len(Dec53) - 1)

RECURSIVE DecOfNat(_)
DecOfNat(n) ==
    IF n < 10 THEN <<Digits[n + 1]>>
    ELSE DecOfNat(n \div 10) \o <<Digits[(n % 10) + 1]>>

\* The decimal spelling of a non-negative <<h, l>> (for h = 1: 2^53 + l with
\* -2 <= l <= 7, where only the last digit of str(2 ** 53) changes).
DecOfMag(p) ==
    IF p[1] = 0 THEN DecOfNat(p[2]) ELSE Dec53Head \o <<Digits[p[2] + 3]>>

\* str(i) of an int.
DecOfPair(p) ==
    IF PairLt(p, <<0, 0>>) THEN <<"-">> \o DecOfMag(PairNeg(p)) ELSE DecOfMag(p)

RECURSIVE NatOfDigits(_)
NatOfDigits(ds) ==
    IF ds = <<>> THEN 0
    ELSE 10 * NatOfDigits(SubSeq(ds, 1, Len(ds) - 1)) + DigitVal(ds[Len(ds)])

RECURSIVE StripZeros(_)
StripZeros(ds) ==
    IF Len(ds) > 1 /\ ds[1] = "0" THEN StripZeros(Tail(ds)) ELSE ds

\* The <<h, l>> a string of digits denotes (short strings, and the 16-digit
\* spellings of 2^53 - 2 .. 2^53 + 7).
MagOfDigits(ds) ==
    LET z == StripZeros(ds) IN
    IF Len(z) = Len(Dec53) /\ SubSeq(z, 1, Len(z) - 1) = Dec53Head
    THEN <<1, DigitVal(z[Len(z)]) - 2>>
    ELSE <<0, NatOfDigits(z)>>

\* The nearest double of an integer below 2^54 in magnitude, ties to even:
\* up to 2^53 every integer is a double, above it only the even ones.
RoundPos(p) ==
    IF p[1] = 0 \/ p[2] <= 0 \/ p[2] % 2 = 0 THEN p
    ELSE IF (p[2] - 1) % 4 = 0 THEN <<p[1], p[2] - 1>> ELSE <<p[1], p[2] + 1>>
RoundDouble(p) ==
    IF PairLt(p, <<0, 0>>) THEN PairNeg(RoundPos(PairNeg(p))) ELSE RoundPos(p)

\* n / Scale truncated toward zero.
TruncDiv(n) == IF n < 0 THEN -((-n) \div Scale) ELSE n \div Scale

(***************************************************************************)
(* The Python built-ins the codecs call: int(), float(), str(), format().  *)
(* The characters of the model are digits, "-", "." and letters other than *)
(* those of an exponent, "inf" or "nan".  On them int() accepts an         *)
(* optional "-" and one or more digits; float() accepts an optional "-"    *)
(* and digits with at most one "." among them, one digit at least.         *)
(***************************************************************************)
Unsigned(s) == IF s # <<>> /\ s[1] = "-" THEN Tail(s) ELSE s
Signed(s, p) == IF s # <<>> /\ s[1] = "-" THEN PairNeg(p) ELSE p

\* int(x)
IntOf(x) ==
    CASE x.t = "int"   -> Ok(x)
      [] x.t = "bool"  -> Ok(PyInt(IF x.v THEN 1 ELSE 0))
      [] x.t = "float" -> Ok(BigInt(x.v[1], TruncDiv(x.v[2])))
      [] x.t = "str"   ->
            LET body == Unsigned(x.v) IN
            IF body = <<>> \/ ~AllDigits(body) THEN Raise("ValueError", "convert")
            ELSE LET p == Signed(x.v, MagOfDigits(body)) IN Ok(BigInt(p[1], p[2]))
      [] OTHER         -> Raise("TypeError", "convert")

\* The places of "." in s.
Dots(s) == {i \in 1..Len(s) : s[i] = "."}

\* float(s) of a string: its integer and fraction digits, scaled.
FloatOfStr(s) ==
    LET body == Unsigned(s)
        dot  == IF Dots(body) = {} THEN Len(body) + 1 ELSE CHOOSE i \in Dots(body) : TRUE
        ip   == SubSeq(body, 1, dot - 1)
        fp   == SubSeq(body, dot + 1, Len(body))
    IN  IF Cardinality(Dots(body)) > 1 \/ ~AllDigits(ip) \/ ~AllDigits(fp)
           \/ (ip = <<>> /\ fp = <<>>)
        THEN Raise("ValueError", "convert")
        ELSE LET m == RoundDouble(MagOfDigits(IF ip = <<>> THEN <<"0">> ELSE ip))
                 f == NatOfDigits(fp) * (Scale \div Pow10(Len(fp)))
                 p == Signed(s, <<m[1], m[2] * Scale + f>>)
             IN  Ok(PyFloat(p[1], p[2]))

\* float(x)
FloatOf(x) ==
    CASE x.t = "float" -> Ok(x)
      [] x.t = "int"   -> LET r == RoundDouble(x.v) IN Ok(PyFloat(r[1], r[2] * Scale))
      [] x.t = "bool"  -> Ok(PyFloat(0, IF x.v THEN Scale ELSE 0))
      [] x.t = "str"   -> FloatOfStr(x.v)
      [] OTHER         -> Raise("TypeError", "convert")

RECURSIVE StripTrailingZeros(_)
StripTrailingZeros(ds) ==
    IF Len(ds) > 1 /\ ds[Len(ds)] = "0"
    THEN StripTrailingZeros(SubSeq(ds, 1, Len(ds) - 1)) ELSE ds

RECURSIVE PadZeros(_, _)
PadZeros(ds, width) == IF Len(ds) >= width THEN ds ELSE PadZeros(<<"0">> \o ds, width)

\* repr(f) of a float: the integer part, ".", the fraction without its
\* trailing zeros.
ReprOfFloat(p) ==
    LET neg == PairLt(p, <<0, 0>>)
        a   == IF neg THEN PairNeg(p) ELSE p
        ip  == <<a[1], a[2] \div Scale>>
        fp  == PadZeros(DecOfNat(a[2] % Scale), MaxTokLen)
    IN  (IF neg THEN <<"-">> ELSE <<>>) \o DecOfMag(ip) \o <<".">> \o StripTrailingZeros(fp)

\* str(x)
StrOf(x) ==
    CASE x.t = "str"   -> x.v
      [] x.t = "int"   -> DecOfPair(x.v)
      [] x.t = "float" -> ReprOfFloat(x.v)
      [] x.t = "bool"  -> IF x.v THEN <<"T", "r", "u", "e">> ELSE <<"F", "a", "l", "s", "e">>
      [] OTHER         -> <<"N", "o", "n", "e">>

\* fmt.format(x) for the two format strings of the module: '{0}' is str(x),
\* '{0:d}' spells an int (a bool as 0 / 1) and rejects every other type.
Format(fmt, x) ==
    IF fmt = "{0}" THEN Ok(PyStr(StrOf(x)))
    ELSE CASE x.t = "int"  -> Ok(PyStr(DecOfPair(x.v)))
           [] x.t = "bool" -> Ok(PyStr(IF x.v THEN <<"1">> ELSE <<"0">>))
           [] OTHER        -> Raise("ValueError", "serialize")

\* x < y between two numbers or two lengths, as Python compares them.
NumPair(x) == IF x.t = "int" THEN <<x.v[1], x.v[2] * Scale>> ELSE x.v
NumLt(x, y) == PairLt(NumPair(x), NumPair(y))

(***************************************************************************)
(* Python dicts: a sequence of <<key, value>> pairs with distinct keys, in *)
(* insertion order.                                                        *)
(***************************************************************************)
DictHas(d, k) == \E i \in 1..Len(d) : d[i][1] = k
DictGet(d, k) == d[CHOOSE i \in 1..Len(d) : d[i][1] = k][2]
DictKeys(d) == {d[i][1] : i \in 1..Len(d)}
\* d[k] = v: a new key is appended, a key already there keeps its place.
DictPut(d, k, v) ==
    IF DictHas(d, k)
    THEN [i \in 1..Len(d) |-> IF d[i][1] = k THEN <<k, v>> ELSE d[i]]
    ELSE Append(d, <<k, v>>)
\* dict(pairs): later pairs overwrite earlier ones of the same key.
RECURSIVE DictOf(_)
DictOf(pairs) ==
    IF pairs = <<>> THEN <<>>
    ELSE LET last == pairs[Len(pairs)]
         IN  DictPut(DictOf(SubSeq(pairs, 1, Len(pairs) - 1)), last[1], last[2])
PyDict(d) == [t |-> "dict", v |-> d]

\* range(start, stop, step), step # 0.
RangeLen(start, stop, step) ==
    IF step > 0
    THEN (IF stop > start THEN (stop - start + step - 1) \div step ELSE 0)
    ELSE (IF stop < start THEN (start - stop - step - 1) \div (-step) ELSE 0)
RangeSeq(start, stop, step) ==
    [i \in 1..RangeLen(start, stop, step) |-> start + (i - 1) * step]
\* zip(a, b)
Zip(a, b) ==
    [i \in 1..(IF Len(a) < Len(b) THEN Len(a) ELSE Len(b)) |-> <<a[i], b[i]>>]

RECURSIVE Pow2(_)
Pow2(k) == IF k = 0 THEN 1 ELSE 2 * Pow2(k - 1)
\* bool(x & (1 << i)), x >= 0
BitIsSet(x, i) == (x \div Pow2(i)) % 2 = 1
\* An assignment in place of the or: x = 1 << i.
SetBitAssign(x, i) == Pow2(i)
\* x | (1 << i), x >= 0
SetBit(x, i) == IF BitIsSet(x, i) THEN x ELSE x + Pow2(i)

(***************************************************************************)
(* The codecs.  A codec is the state its constructor leaves:               *)
(*   kind, fmt (_fmt), min, max (_min, _max), map, inv (_map, _inv), and   *)
(*   types (the list of codecs of a Stream).                               *)
(***************************************************************************)
NoCodec == [kind |-> "none", fmt |-> "", min |-> None, max |-> None,
            map |-> <<>>, inv |-> <<>>, types |-> <<>>]

RangeKinds == {"Integer", "Float"}
MappingKinds == {"Mapping", "Set", "Enum"}

\* What a constructor call leaves: the codec, or the exception it raised.
Built(c) == [exc |-> "", codec |-> c]
Failed(exc) == [exc |-> exc, codec |-> NoCodec]

\* SingleType.__init__: fmt or '{0}' ("" stands for a fmt of None or '').
SingleTypeInit(kind, fmt) ==
    [NoCodec EXCEPT !.kind = kind, !.fmt = IF fmt = "" THEN "{0}" ELSE fmt]

\* Boolean.__convert__
BooleanConvert(x) ==
    LET i == IntOf(x) IN IF IsOk(i) THEN Ok(PyBool(i.val.v # <<0, 0>>)) ELSE i

\* Integer.__convert__: int(float(value))
IntegerConvert(x) ==
    LET f == FloatOf(x) IN IF IsOk(f) THEN IntOf(f.val) ELSE f

\* Float.__convert__
FloatConvert(x) == FloatOf(x)

\* String.__convert__
StringConvert(x) == Ok(PyStr(StrOf(x)))

\* Mapping.__convert__: the forward entry, ValueError for an unknown key.
MappingConvert(c, x) ==
    IF DictHas(c.map, x) THEN Ok(DictGet(c.map, x)) ELSE Raise("ValueError", "convert")

\* A Register.__convert__ that sets the bit of every flag given, whatever its
\* value.
RECURSIVE RegisterPackAll(_, _, _, _)
RegisterPackAll(c, items, i, x) ==
    IF i > Len(items) THEN Ok(PyInt(x))
    ELSE LET k == items[i][1]
         IN  IF ~DictHas(c.map, k) THEN Raise("KeyError", "convert")
             ELSE IF DictGet(c.map, k).v[2] < 0 THEN Raise("ValueError", "convert")
             ELSE RegisterPackAll(c, items, i + 1, SetBit(x, DictGet(c.map, k).v[2]))

\* Register.__convert__ on the items from position i on, x being the bits
\* set so far: only a flag whose value is true is looked up in the layout.
RECURSIVE RegisterPack(_, _, _, _)
RegisterPack(c, items, i, x) ==
    IF i > Len(items) THEN Ok(PyInt(x))
    ELSE LET k == items[i][1]
             v == items[i][2]
         IN  IF ~Truthy(v) THEN RegisterPack(c, items, i + 1, x)
             ELSE IF ~DictHas(c.map, k) THEN Raise("KeyError", "convert")
             ELSE IF DictGet(c.map, k).v[2] < 0 THEN Raise("ValueError", "convert")
             ELSE RegisterPack(c, items, i + 1, SetBit(x, DictGet(c.map, k).v[2]))

\* Register.__convert__: value.items() of anything but a dict fails.
RegisterConvert(c, x) ==
    IF x.t # "dict" THEN Raise("AttributeError", "convert")
    ELSE RegisterPack(c, x.v, 1, 0)

\* __convert__ of the codec's class.
Convert(c, x) ==
    CASE c.kind = "Boolean"  -> BooleanConvert(x)
      [] c.kind = "Integer"  -> IntegerConvert(x)
      [] c.kind = "Float"    -> FloatConvert(x)
      [] c.kind = "String"   -> StringConvert(x)
      [] c.kind = "Register" -> RegisterConvert(c, x)
      [] OTHER               -> MappingConvert(c, x)

\* Range.__validate__
RangeValidate(c, value) ==
    IF c.min # None /\ NumLt(value, c.min) THEN Raise("ValueError", "validate")
    ELSE IF c.max # None /\ NumLt(c.max, value) THEN Raise("ValueError", "validate")
    ELSE Ok(None)

\* String.__validate__
StringValidate(c, value) ==
    IF Truthy(c.min) /\ NumLt(PyInt(Len(value.v)), c.min) THEN Raise("ValueError", "validate")
    ELSE IF Truthy(c.max) /\ NumLt(c.max, PyInt(Len(value.v))) THEN Raise("ValueError", "validate")
    ELSE Ok(None)

\* __validate__ of the codec's class (SingleType.__validate__ passes).
Validate(c, value) ==
    CASE c.kind \in RangeKinds -> RangeValidate(c, value)
      [] c.kind = "String"     -> StringValidate(c, value)
      [] OTHER                 -> Ok(None)

\* SingleType.__serialize__
Serialize(c, value) == Format(c.fmt, value)

\* SingleType.dump: convert, then validate, then serialize.
Dump(c, x) ==
    LET cv == Convert(c, x) IN
    IF ~IsOk(cv) THEN cv
    ELSE LET vd == Validate(c, cv.val) IN
         IF ~IsOk(vd) THEN vd ELSE Serialize(c, cv.val)

\* A load that also checked the bounds, as dump does.
SingleTypeLoadValidated(c, x) ==
    LET cv == Convert(c, x) IN
    IF ~IsOk(cv) THEN cv
    ELSE LET vd == Validate(c, cv.val) IN IF ~IsOk(vd) THEN vd ELSE cv

\* SingleType.load: the conversion alone.
SingleTypeLoad(c, x) == Convert(c, x)

\* Mapping.load: the inverse entry, TypeError for an unknown token.
MappingLoad(c, x) ==
    IF DictHas(c.inv, x) THEN Ok(DictGet(c.inv, x)) ELSE Raise("TypeError", "load")

\* An Enum.load without the str(int(value)) normalisation.
EnumLoadNoCast(c, x) == MappingLoad(c, x)

\* Enum.load: the token goes through str(int(value)) first.
EnumLoad(c, x) ==
    LET i == IntOf(x) IN
    IF IsOk(i) THEN MappingLoad(c, PyStr(StrOf(i.val))) ELSE i

\* A Register.load that counts the bits from 1.
RegisterLoadShifted(c, x) ==
    LET i == IntOf(x) IN
    IF ~IsOk(i) THEN i
    ELSE IF \E j \in 1..Len(c.map) : c.map[j][2].v[2] < 0 THEN Raise("ValueError", "load")
    ELSE Ok(PyDict([j \in 1..Len(c.map) |->
                      <<c.map[j][1], PyBool(BitIsSet(i.val.v[2], c.map[j][2].v[2] + 1))>>]))

\* Register.load: every flag name of the layout with its bit of int(value).
RegisterLoad(c, x) ==
    LET i == IntOf(x) IN
    IF ~IsOk(i) THEN i
    ELSE IF \E j \in 1..Len(c.map) : c.map[j][2].v[2] < 0 THEN Raise("ValueError", "load")
    ELSE Ok(PyDict([j \in 1..Len(c.map) |->
                      <<c.map[j][1], PyBool(BitIsSet(i.val.v[2], c.map[j][2].v[2]))>>]))

\* load of the codec's class.
Load(c, x) ==
    CASE c.kind \in {"Mapping", "Set"} -> MappingLoad(c, x)
      [] c.kind = "Enum"               -> EnumLoad(c, x)
      [] c.kind = "Register"           -> RegisterLoad(c, x)
      [] OTHER                         -> SingleTypeLoad(c, x)

\* A call that normalised the format kept in self.
SelfAfterNormalising(c) == [c EXCEPT !.fmt = "{0}"]

\* The attributes of self after dump, load or simulate: the three bind
\* locals only and assign no attribute, whether they return or raise.
SelfAfter(c) == c

(***************************************************************************)
(* simulate(): the set of outcomes the random draws can give.              *)
(***************************************************************************)
SimDefaultMin == 1
SimDefaultMax == 10
\* The characters random.choice(chars) draws from, two of them in the model.
SimChars == {"a", "1"}

\* Boolean.simulate: bool(random.randint(0, 1))
BooleanSimulate == {Ok(PyBool(TRUE)), Ok(PyBool(FALSE))}

\* random.randint(lo, hi) over the integers of the set S: an empty range
\* raises ValueError.  An absent bound (None) stands for -sys.maxsize - 1 or
\* sys.maxsize, beyond every integer of the model.
RandInt(lo, hi, S) ==
    IF lo # None /\ hi # None /\ NumLt(hi, lo) THEN {Raise("ValueError", "simulate")}
    ELSE {Ok(v) : v \in {w \in S : (lo = None \/ ~NumLt(w, lo)) /\ (hi = None \/ ~NumLt(hi, w))}}

\* Integer.simulate: random.randint(min_, max_)
IntegerSimulate(c) ==
    RandInt(c.min, c.max,
            {PyInt(n) : n \in -1..(MaxInt + 1)} \cup {BigInt(1, d) : d \in -1..3}
                \cup {BigInt(-1, -1)} \cup ({c.min, c.max} \ {None}))

\* Float.simulate: random.uniform(min_, max_) = min_ + (max_ - min_) * r, r
\* in [0, 1): a float between the two bounds, whichever is the larger.  An
\* absent minimum is sys.float_info.min, the smallest positive float; an
\* absent maximum is sys.float_info.max.
FloatSimulate(c) ==
    LET zero == PyFloat(0, 0)
        cand == {PyFloat(0, (n * Scale) \div 2) : n \in -1..(2 * MaxInt)} \cup ({c.min, c.max} \ {None})
        Le(x, y) == ~NumLt(y, x)
        In(v) ==
            CASE c.min = None /\ c.max = None -> NumLt(zero, v)
              [] c.min = None -> IF NumLt(zero, c.max) THEN NumLt(zero, v) /\ Le(v, c.max)
                                 ELSE Le(c.max, v) /\ Le(v, zero)
              [] c.max = None -> Le(c.min, v)
              [] OTHER -> \/ Le(c.min, v) /\ Le(v, c.max)
                          \/ Le(c.max, v) /\ Le(v, c.min)
    IN  {Ok(v) : v \in {w \in cand : In(w)}}

\* A String.simulate that takes `min or 1` and `max or 10` for the bounds.
StringSimulateOrDefault(c) ==
    LET min_ == IF ~Truthy(c.min) THEN SimDefaultMin ELSE c.min.v[2]
        max_ == IF ~Truthy(c.max) THEN SimDefaultMax ELSE c.max.v[2]
        ns   == IF min_ >= max_ THEN {min_} ELSE min_..max_
    IN  {Ok(PyStr(q)) : q \in UNION {[1..n -> SimChars] : n \in {m \in ns : m >= 0}}}

\* String.simulate: n characters, n = min_ if min_ >= max_, else drawn from
\* min_ .. max_; an absent min is 1, an absent max 10.
StringSimulate(c) ==
    LET min_ == IF c.min = None THEN SimDefaultMin ELSE c.min.v[2]
        max_ == IF c.max = None THEN SimDefaultMax ELSE c.max.v[2]
        ns   == IF min_ >= max_ THEN {min_} ELSE min_..max_
    IN  {Ok(PyStr(q)) : q \in UNION {[1..n -> SimChars] : n \in {m \in ns : m >= 0}}}

\* Mapping.simulate: random.choice(self._map.keys()).  keys() is a view:
\* choice raises IndexError on an empty one and TypeError on indexing any
\* other.
MappingSimulate(c) ==
    IF c.map = <<>> THEN {Raise("IndexError", "simulate")} ELSE {Raise("TypeError", "simulate")}

\* Register.simulate: every name of the layout with random.randint(0, 1).
RegisterSimulate(c) ==
    {Ok(PyDict([j \in 1..Len(c.map) |-> <<c.map[j][1], PyInt(f[j])>>])) :
        f \in [1..Len(c.map) -> {0, 1}]}

\* simulate of the codec's class.
Simulate(c) ==
    CASE c.kind = "Boolean"  -> BooleanSimulate
      [] c.kind = "Integer"  -> IntegerSimulate(c)
      [] c.kind = "Float"    -> FloatSimulate(c)
      [] c.kind = "String"   -> StringSimulate(c)
      [] c.kind = "Register" -> RegisterSimulate(c)
      [] OTHER               -> MappingSimulate(c)

(***************************************************************************)
(* The constructors.                                                       *)
(***************************************************************************)
\* Boolean.__init__: fmt or '{0:d}'
BooleanInit(fmt) == Built(SingleTypeInit("Boolean", IF fmt = "" THEN "{0:d}" ELSE fmt))

\* `b and self.__convert__(b)` of Range.__init__
RangeBound(kind, b) ==
    IF ~Truthy(b) THEN Ok(b)
    ELSE IF kind = "Integer" THEN IntegerConvert(b) ELSE FloatConvert(b)

\* Range.__init__ (Integer, Float): the two bounds are converted and stored.
RangeInit(kind, min, max, fmt) ==
    LET lo == RangeBound(kind, min)
        hi == RangeBound(kind, max)
    IN  IF ~IsOk(lo) THEN Failed(lo.exc)
        ELSE IF ~IsOk(hi) THEN Failed(hi.exc)
        ELSE Built([SingleTypeInit(kind, fmt) EXCEPT !.min = lo.val, !.max = hi.val])

\* `b and int(b)` of String.__init__
StringBound(b) == IF ~Truthy(b) THEN Ok(b) ELSE IntOf(b)

\* String.__init__: min > max is rejected.
StringInit(min, max, fmt) ==
    LET lo == StringBound(min)
        hi == StringBound(max)
    IN  IF ~IsOk(lo) THEN Failed(lo.exc)
        ELSE IF ~IsOk(hi) THEN Failed(hi.exc)
        ELSE IF lo.val # None /\ hi.val # None /\ NumLt(hi.val, lo.val)
        THEN Failed("ValueError")
        ELSE Built([SingleTypeInit("String", fmt) EXCEPT !.min = lo.val, !.max = hi.val])

\* Mapping.__init__ on the items of a dict: _map holds str(v) for each key,
\* _inv is built from _map's items in order, a later key of the same token
\* replacing an earlier one.
MappingInit(kind, items) ==
    LET fwd == DictOf([i \in 1..Len(items) |-> <<items[i][1], PyStr(StrOf(items[i][2]))>>])
        inv == DictOf([i \in 1..Len(fwd) |-> <<fwd[i][2], fwd[i][1]>>])
    IN  Built([SingleTypeInit(kind, "") EXCEPT !.map = fwd, !.inv = inv])

\* Set.__init__: each argument mapped to its str().
SetInit(args) ==
    MappingInit("Set", DictOf([i \in 1..Len(args) |-> <<args[i], PyStr(StrOf(args[i]))>>]))

\* An Enum.__init__ whose range stops one step short.
EnumInitShort(args, start, step) ==
    LET stop == (Len(args) - 1) * step + start IN
    IF step = 0 THEN Failed("ValueError")
    ELSE LET r == RangeSeq(start, stop, step)
         IN  MappingInit("Enum", DictOf(Zip(args, [i \in 1..Len(r) |-> PyInt(r[i])])))

\* Enum.__init__: the arguments zipped with range(start, stop, step).
EnumInit(args, start, step) ==
    LET stop == Len(args) * step + start IN
    IF step = 0 THEN Failed("ValueError")
    ELSE LET r == RangeSeq(start, stop, step)
         IN  MappingInit("Enum", DictOf(Zip(args, [i \in 1..Len(r) |-> PyInt(r[i])])))

\* Register.__init__ on the items of {bit: name}: _map holds name -> bit.
RegisterInit(layout) ==
    LET bad == {i \in 1..Len(layout) : ~IsOk(IntOf(layout[i][1]))} IN
    IF bad # {}
    THEN Failed(IntOf(layout[CHOOSE i \in bad : \A j \in bad : i <= j][1]).exc)
    ELSE Built([SingleTypeInit("Register", "") EXCEPT
                  !.map = DictOf([i \in 1..Len(layout) |->
                              <<PyStr(StrOf(layout[i][2])), IntOf(layout[i][1]).val>>])])

(***************************************************************************)
(* Stream: a list of codecs, iterated through itertools.cycle.             *)
(***************************************************************************)
\* An argument of Stream: a codec class or a codec instance.
ClassOf(name) == [t |-> "class", v |-> name]
InstanceOf(c) == [t |-> "codec", v |-> c]

\* _to_instance(t): a class is called without arguments, an instance is
\* taken as it is.
ToInstance(t) ==
    IF t.t = "codec" THEN t.v
    ELSE IF t.v = "Boolean" THEN BooleanInit("").codec
    ELSE RangeInit(t.v, None, None, "").codec

\* Stream.__init__
StreamInit(types) ==
    Built([NoCodec EXCEPT !.kind = "Stream",
                          !.types = [i \in 1..Len(types) |-> ToInstance(types[i])]])

\* A Stream.__iter__ that hands out one cursor kept with the Stream.
StreamIterShared(heap) == [heap |-> IF heap = <<>> THEN <<0>> ELSE heap, ref |-> 1]

\* Stream.__iter__: itertools.cycle(self.types), a new cycle object at the
\* first item of the list.  heap holds the cursor of every cycle object
\* made so far; ref is the new object's place in it.
StreamIter(heap) == [heap |-> Append(heap, 0), ref |-> Len(heap) + 1]

\* A cycle that stays on the last item instead of starting over.
CycleNextClamp(types, cur) ==
    IF types = <<>> THEN [stop |-> TRUE, item |-> NoCodec, cur |-> cur]
    ELSE [stop |-> FALSE, item |-> types[cur + 1],
          cur |-> IF cur + 1 < Len(types) THEN cur + 1 ELSE cur]

\* next() of a cycle object over types at cursor cur: the item under the
\* cursor, the cursor moving on and starting over after the last item; a
\* cycle over the empty list stops at once.
CycleNext(types, cur) ==
    IF types = <<>> THEN [stop |-> TRUE, item |-> NoCodec, cur |-> cur]
    ELSE [stop |-> FALSE, item |-> types[cur + 1], cur |-> (cur + 1) % Len(types)]

\* Stream.simulate takes random.choice(range(10)) items: one of 0 .. 9.
SimStreamLen == 10

(***************************************************************************)
(* Curve (ls370.py): a buffer of points on the device, read by index or    *)
(* slice.  Indices, lengths and the parts of a slice are integers, an      *)
(* absent part of a slice is None.                                         *)
(***************************************************************************)
NoCurve == [built |-> FALSE, idx |-> 0, length |-> 0]
PyList(q) == [t |-> "list", v |-> q]

\* Curve.__init__: the index and a length > 0 are kept.
CurveInit(idx, length) ==
    IF length > 0 THEN [exc |-> "", curve |-> [built |-> TRUE, idx |-> idx, length |-> length]]
    ELSE [exc |-> "ValueError", curve |-> NoCurve]

\* slice(start, stop, step).indices(length): the defaults of the absent
\* parts, a negative part counted from the end, every part clamped to the
\* sequence; a step of 0 raises ValueError.
SliceIndices(start, stop, step, length) ==
    LET st    == IF step = None THEN 1 ELSE step.v[2]
        lower == IF st > 0 THEN 0 ELSE -1
        upper == IF st > 0 THEN length ELSE length - 1
        Clamp(part, default) ==
            IF part = None THEN default
            ELSE IF part.v[2] < 0
                 THEN (IF part.v[2] + length < lower THEN lower ELSE part.v[2] + length)
                 ELSE (IF part.v[2] > upper THEN upper ELSE part.v[2])
    IN  IF st = 0 THEN Raise("ValueError", "indices")
        ELSE Ok(<<Clamp(start, IF st > 0 THEN lower ELSE upper),
                  Clamp(stop, IF st > 0 THEN upper ELSE lower), st>>)

\* misc.index(item, length): a negative index counts from the end; an index
\* still outside the sequence raises IndexError.
MiscIndex(item, length) ==
    LET i == IF item < 0 THEN item + length ELSE item IN
    IF i < 0 \/ i >= length THEN Raise("IndexError", "index") ELSE Ok(i)

\* data_t of the point query: the curve index and the point index.
CurveIndexType == RangeInit("Integer", PyInt(1), None, "").codec
PointIndexType == RangeInit("Integer", PyInt(1), PyInt(200), "").codec

\* _query(('CRVPT?', response_t, data_t), idx, point): each datum is dumped
\* by its type, and the device answers with the point whose index the token
\* spells (a point is named by that index here).
Answer(a, b) ==
    IF ~IsOk(a) THEN a
    ELSE IF ~IsOk(b) THEN b
    ELSE Ok(PyInt(NatOfDigits(b.val.v)))
Query(idx, point) ==
    Answer(Dump(CurveIndexType, PyInt(idx)), Dump(PointIndexType, PyInt(point)))

\* A read that sends the index as it is, from 0.
CurveGetPointFromZero(c, item) ==
    LET i == MiscIndex(item, c.length) IN
    IF ~IsOk(i) THEN i ELSE Query(c.idx, i.val)

\* Curve.__getitem__ of a simple index: the device counts from 1.
CurveGetPoint(c, item) ==
    LET i == MiscIndex(item, c.length) IN
    IF ~IsOk(i) THEN i ELSE Query(c.idx, i.val + 1)

\* Curve.__getitem__ of a slice: [self[i] for i in range(*indices)], the
\* first read that raises ending the whole.
\* got holds the outcome of self[i] for each i of the range, in order.
CurveGetEach(got) ==
    LET bad == {k \in DOMAIN got : ~IsOk(got[k])} IN
    IF bad # {} THEN got[CHOOSE k \in bad : \A j \in bad : k <= j]
    ELSE Ok(PyList([k \in DOMAIN got |-> got[k].val]))
CurveGetSlice(c, start, stop, step) ==
    LET ind == SliceIndices(start, stop, step, c.length) IN
    IF ~IsOk(ind) THEN ind
    ELSE CurveGetEach([k \in 1..RangeLen(ind.val[1], ind.val[2], ind.val[3]) |->
                          CurveGetPoint(c, ind.val[1] + (k - 1) * ind.val[3])])

(***************************************************************************)
(* LS370 (ls370.py): the device object.  It holds the scanner option, the  *)
(* Input built for it, and the Curves; its commands are written to the     *)
(* transport as a header and the tokens of the data.                       *)
(***************************************************************************)
\* An argument left out of a call: the parameter takes its default.
Omitted == [t |-> "omitted", v |-> 0]
DefaultOf(a, d) == IF a = Omitted THEN d ELSE a

\* The outcome of a command: res, what the call returns or raises; sent,
\* the messages it wrote to the transport.
NothingSent(res) == [res |-> res, sent |-> <<>>]
\* toks holds the outcome of dumping each datum by its type, in order: the
\* first dump that raises ends the call before anything is written, else
\* one message goes out, the header and the tokens.
Written(header, toks) ==
    LET bad == {k \in DOMAIN toks : ~IsOk(toks[k])} IN
    IF bad # {} THEN NothingSent(toks[CHOOSE k \in bad : \A j \in bad : k <= j])
    ELSE [res |-> Ok(None),
          sent |-> <<[header |-> header, args |-> [k \in DOMAIN toks |-> toks[k].val.v]]>>]
\* _write((header, types), *data)
Write(header, types, data) ==
    Written(header, [k \in 1..Len(data) |-> Dump(ToInstance(types[k]), data[k])])

\* Curve.__setitem__ of a simple index: value is the pair (unit, temp).
CurveSetPoint(c, item, value) ==
    LET i == MiscIndex(item, c.length) IN
    IF ~IsOk(i) THEN NothingSent(i)
    ELSE Write("CRVPT",
               <<InstanceOf(CurveIndexType), InstanceOf(PointIndexType),
                 ClassOf("Float"), ClassOf("Float")>>,
               <<PyInt(c.idx), PyInt(i.val + 1), value[1], value[2]>>)

\* The points a curve of the device holds (LS370.__init__ gives every Curve
\* this length).
CurvePoints == 200
\* The number of user curves LS370.__init__ builds: range(1, 21).
UserCurves == 20

\* The table of the scanner setter: the channels of each scanner option.
ScannerChannels ==
    <<<<None, 1>>,
      <<PyStr(<<"3", "7", "1", "6">>), 16>>,
      <<PyStr(<<"3", "7", "1", "6", "L">>), 16>>,
      <<PyStr(<<"3", "7", "0", "8">>), 8>>>>

\* Input.__init__: _channels holds the InputChannel of each index of
\* range(1, channels + 1); scan is the Command over
\* (Integer(min=0, max=len(self)), Boolean).
InputInit(channels) ==
    LET chans == RangeSeq(1, channels + 1, 1) IN
    [channels |-> chans,
     scan |-> <<RangeInit("Integer", PyInt(0), PyInt(Len(chans)), "").codec,
                ToInstance(ClassOf("Boolean"))>>]

NoInput == [channels |-> <<>>, scan |-> <<>>]
NoLS370 == [built |-> FALSE, scanner |-> None, input |-> NoInput,
            all_curves |-> NoCurve, user_curve |-> <<>>]

\* A scanner setter that keeps the value before it looks it up.
ScannerSetEager(self, value) ==
    IF value.t = "list" THEN [exc |-> "TypeError", self |-> [self EXCEPT !.scanner = value]]
    ELSE IF ~DictHas(ScannerChannels, value)
    THEN [exc |-> "KeyError", self |-> [self EXCEPT !.scanner = value]]
    ELSE [exc |-> "",
          self |-> [self EXCEPT !.input = InputInit(DictGet(ScannerChannels, value)),
                                !.scanner = value]]

\* LS370.scanner's setter: channels[value] raises KeyError for a value the
\* table does not hold (TypeError for an unhashable one) before anything is
\* assigned; else the Input is built anew and the value kept.
ScannerSet(self, value) ==
    IF value.t = "list" THEN [exc |-> "TypeError", self |-> self]
    ELSE IF ~DictHas(ScannerChannels, value) THEN [exc |-> "KeyError", self |-> self]
    ELSE [exc |-> "",
          self |-> [self EXCEPT !.input = InputInit(DictGet(ScannerChannels, value)),
                                !.scanner = value]]

\* LS370.__init__(transport, scanner): the scanner is assigned through its
\* setter, then the Curves are built, each over CurvePoints points.
\* r is the outcome of the assignment of the scanner.
LS370Curves(r) ==
    IF r.exc # "" THEN [exc |-> r.exc, self |-> NoLS370]
    ELSE [exc |-> "",
          self |-> [r.self EXCEPT
                       !.built = TRUE,
                       !.all_curves = CurveInit(0, CurvePoints).curve,
                       !.user_curve = [i \in 1..UserCurves |-> CurveInit(i, CurvePoints).curve]]]
LS370Init(scanner) == LS370Curves(ScannerSet(NoLS370, scanner))

\* A _factory_default that takes every true value for a confirmation.
FactoryDefaultTruthy(confirm) ==
    IF Truthy(confirm) THEN Write("DFLT", <<ClassOf("Integer")>>, <<PyInt(99)>>)
    ELSE NothingSent(Raise("ValueError", "confirm"))

\* LS370._factory_default(confirm): `confirm is True` holds of the bool True
\* alone.
FactoryDefault(confirm) ==
    IF confirm = PyBool(TRUE) THEN Write("DFLT", <<ClassOf("Integer")>>, <<PyInt(99)>>)
    ELSE NothingSent(Raise("ValueError", "confirm"))

(***************************************************************************)
(* DAQ.run (daq.py): a procedure class is chosen by its type, its          *)
(* parameters are overridden and checked, and a procedure is run.  Names   *)
(* (procedure types, parameters, keys of file_name_kwargs) are strings; a  *)
(* procedure type given to run is the str PyStr(name).                     *)
(***************************************************************************)
\* config["procedures"]: the class of each procedure type.
ConfigProcedures == <<<<PyStr("sweep"), "Sweep">>, <<PyStr("noise"), "Noise">>>>

\* for key, value in kwargs.items(): getattr(Procedure, key).default = value
\* (and .value): the Parameter of each key in turn, AttributeError at the
\* first key the class has no attribute for, the keys before it staying
\* overridden.
RECURSIVE OverrideDefaults(_, _, _)
OverrideDefaults(params, kwargs, i) ==
    IF i > Len(kwargs) THEN [exc |-> "", params |-> params]
    ELSE IF ~DictHas(params, kwargs[i][1]) THEN [exc |-> "AttributeError", params |-> params]
    ELSE OverrideDefaults(DictPut(params, kwargs[i][1], kwargs[i][2]), kwargs, i + 1)

\* assert parameter.default is not None, for every Parameter of the class
AllHaveDefaults(params) == \A i \in 1..Len(params) : params[i][2] # None

\* if file_name_kwargs.get("prefix", None) is None:
\*     file_name_kwargs["prefix"] = procedure_type
\* The dict given is the one changed.
WithPrefix(d, procedure_type) ==
    IF ~DictHas(d, "prefix") \/ DictGet(d, "prefix") = None
    THEN DictPut(d, "prefix", procedure_type) ELSE d

\* A call of a method of the procedure, with its keyword arguments.
Called(m, kw) == [m |-> m, kw |-> kw]

\* A run whose shutdown is called only after startup and execute returned.
LifecycleNoFinally(d, raises) ==
    LET first == <<Called("__init__", <<>>), Called("file_name", d)>>
        body  == IF "startup" \in raises THEN <<Called("startup", <<>>)>>
                 ELSE <<Called("startup", <<>>), Called("execute", <<>>)>>
        at    == IF "startup" \in raises THEN "startup"
                 ELSE IF "execute" \in raises THEN "execute" ELSE ""
    IN  IF "file_name" \in raises THEN [log |-> first, res |-> Raise("Exception", "file_name")]
        ELSE IF at # "" THEN [log |-> first \o body, res |-> Raise("Exception", at)]
        ELSE IF "shutdown" \in raises
        THEN [log |-> first \o body \o <<Called("shutdown", <<>>)>>,
              res |-> Raise("Exception", "shutdown")]
        ELSE [log |-> first \o body \o <<Called("shutdown", <<>>), Called("file_name", <<>>)>>,
              res |-> IF "join" \in raises THEN Ok(None) ELSE Ok(PyStr("path"))]

\* The run of the procedure, from Procedure() on: file_name(**d), then
\* startup and execute inside try, shutdown in its finally, then the path
\* of the saved file, None when that raises.  raises holds the methods that
\* raise when called ("join": os.path.join of the directory and
\* file_name()); log is the calls made, in order.
Lifecycle(d, raises) ==
    LET first == <<Called("__init__", <<>>), Called("file_name", d)>>
        body  == IF "startup" \in raises THEN <<Called("startup", <<>>)>>
                 ELSE <<Called("startup", <<>>), Called("execute", <<>>)>>
        at    == IF "startup" \in raises THEN "startup"
                 ELSE IF "execute" \in raises THEN "execute" ELSE ""
    IN  IF "file_name" \in raises THEN [log |-> first, res |-> Raise("Exception", "file_name")]
        ELSE IF "shutdown" \in raises
        THEN [log |-> first \o body \o <<Called("shutdown", <<>>)>>,
              res |-> Raise("Exception", "shutdown")]
        ELSE IF at # "" THEN [log |-> first \o body \o <<Called("shutdown", <<>>)>>,
                              res |-> Raise("Exception", at)]
        ELSE [log |-> first \o body \o <<Called("shutdown", <<>>), Called("file_name", <<>>)>>,
              res |-> IF "join" \in raises THEN Ok(None) ELSE Ok(PyStr("path"))]

\* DAQ.run up to the instantiation: over, the outcome of the overriding of
\* the defaults of the class of procedure_type; d, the dict file_name_kwargs
\* is bound to.  The outcome holds the Parameters of the class and the dict
\* as the call leaves them.
RunChecked(procedure_type, over, d, raises) ==
    IF over.exc # "" THEN [params |-> over.params, d |-> d, log |-> <<>>,
                           res |-> Raise(over.exc, "override")]
    ELSE IF ~AllHaveDefaults(over.params)
    THEN [params |-> over.params, d |-> d, log |-> <<>>,
          res |-> Raise("AssertionError", "defaults")]
    ELSE [params |-> over.params, d |-> WithPrefix(d, procedure_type),
          log |-> Lifecycle(WithPrefix(d, procedure_type), raises).log,
          res |-> Lifecycle(WithPrefix(d, procedure_type), raises).res]

\* DAQ.run(procedure_type, file_name_kwargs, **kwargs) of a configured
\* procedure type, params being the Parameters of its class.
Run(procedure_type, params, d, kwargs, raises) ==
    RunChecked(procedure_type, OverrideDefaults(params, kwargs, 1), d, raises)

(***************************************************************************)
(* The temperature history of the pulse GUI (pulse_gui.py).  A reading is  *)
(* a real number, NaN, or Absent when the object read has no such          *)
(* attribute.                                                              *)
(***************************************************************************)
NaN == [t |-> "nan", v |-> 0]
Real(n) == [t |-> "real", v |-> n]
Absent == [t |-> "absent", v |-> 0]
\* np.isnan
IsNaN(x) == x.t = "nan"
\* x * 1000 of a float
Times1000(x) == IF IsNaN(x) THEN NaN ELSE Real(x.v * 1000)

\* deque(maxlen=int(24 * 60)): the length the histories are held to.
MaxHistory == 1440

\* append of a deque without maxlen
DequeAppendUnbounded(q, x) == Append(q, x)

\* deque.append of a deque with maxlen: once full, the item at the left end
\* is discarded as the new one is added at the right.
DequeAppend(q, x) ==
    IF Len(q) >= MaxHistory THEN Append(Tail(q), x) ELSE Append(q, x)

\* The attributes of daq.thermometer a read finds: those of the kind of
\* thermometer in use, none when daq is None.
NoDaq == [made |-> FALSE, thermometer |-> {}]

\* TemperatureUpdater.update at the time t: temperature and resistance are
\* what the reads of daq.thermometer give.  The reads come first, an
\* AttributeError of either ends the update; then the appends and the log
\* lines.
Update(ts, temps, t, temperature, resistance) ==
    IF temperature = Absent \/ resistance = Absent
    THEN [exc |-> "AttributeError", time_stamps |-> ts, temperatures |-> temps,
          logged |-> <<>>]
    ELSE [exc |-> "",
          time_stamps |-> IF ~IsNaN(Times1000(temperature)) THEN DequeAppend(ts, t) ELSE ts,
          temperatures |-> IF ~IsNaN(Times1000(temperature))
                           THEN DequeAppend(temps, Times1000(temperature)) ELSE temps,
          logged |-> (IF ~IsNaN(Times1000(temperature)) THEN <<"temperature">> ELSE <<>>)
                     \o (IF ~IsNaN(resistance) THEN <<"resistance">> ELSE <<>>)]

(***************************************************************************)
(* The inputs of the model.                                                *)
(***************************************************************************)
Alphabet == {"0", "1", "2", "-", ".", "a"}

RECURSIVE SeqsUpTo(_, _)
\* Every sequence over S of length at most n.
SeqsUpTo(S, n) ==
    IF n = 0 THEN {<<>>}
    ELSE LET shorter == SeqsUpTo(S, n - 1)
         IN  shorter \cup {Append(q, x) : q \in {r \in shorter : Len(r) = n - 1}, x \in S}

\* Longer tokens of interest: "1.5", "-01", "2.0", and the spellings of
\* 2^53 - 1 .. 2^53 + 3.
LongTokens ==
    {<<"1", ".", "5">>, <<"-", "0", "1">>, <<"2", ".", "0">>}
        \cup {DecOfPair(<<1, d>>) : d \in -1..3}

Tokens == {PyStr(q) : q \in SeqsUpTo(Alphabet, MaxTokLen) \cup LongTokens}

SmallInts == {PyInt(n) : n \in -1..MaxInt}
\* Integers around 2^53, where float() starts to round.
LargeInts == {BigInt(1, d) : d \in -1..3} \cup {BigInt(-1, -1)}
Floats == {PyFloat(0, (n * Scale) \div 2) : n \in -1..(2 * MaxInt)}
Strings == {PyStr(q) : q \in SeqsUpTo({"a", "1"}, MaxInt + 1)}

FmtArgs == {"", "{0}", "{0:d}"}
IntegerBounds == {None} \cup SmallInts \cup {BigInt(1, 0), BigInt(1, 1)}
FloatBounds == {None} \cup {PyFloat(0, (n * Scale) \div 2) : n \in 0..MaxInt}
StringBounds == {None} \cup {PyInt(n) : n \in 0..MaxInt}

Keys == {PyStr(<<"a">>), PyStr(<<"1">>), PyInt(1)}
WireValues == {PyStr(<<"0">>), PyInt(0), PyStr(<<"0", "1">>)}
\* The items of every dict of at most MaxKeys keys.
DictsOver(K, V) ==
    {d \in SeqsUpTo(K \X V, MaxKeys) : \A i, j \in 1..Len(d) : d[i][1] = d[j][1] => i = j}
KeyLists == SeqsUpTo(Keys, MaxKeys)
EnumStarts == -1..1
EnumSteps == -1..2

FlagNames == {PyStr(<<"a">>), PyStr(<<"b">>)}
BitIndices == {PyInt(n) : n \in 0..MaxKeys}
Layouts == DictsOver(BitIndices, FlagNames)
\* Flags given to Register.dump: names of the layout and one that no layout
\* of the model holds.
FlagArgs == {PyDict(d) : d \in DictsOver(FlagNames \cup {PyStr(<<"z">>)}, {PyBool(TRUE), PyBool(FALSE)})}

\* The arguments of Stream: classes, and an instance whose simulate raises.
StreamElems ==
    {ClassOf("Float"), ClassOf("Integer"),
     InstanceOf(EnumInit(<<PyStr(<<"a">>)>>, 0, 1).codec)}
StreamArgs == SeqsUpTo(StreamElems, MaxKeys)

\* Curve(transport, protocol, idx, length): index 0 is the Curve of all
\* curves; the lengths are small ones, 10, the device's and one more, and 0.
CurveIdxs == 0..1
CurveLengths == (0..MaxLen) \cup {10, CurvePoints, CurvePoints + 1}
\* The parts of a slice, and the simple indices.
SliceParts == {None} \cup {PyInt(n) : n \in ((-4)..(MaxLen + 1)) \cup {CurvePoints}}
SliceSteps == {None} \cup {PyInt(n) : n \in (-2)..2}
Indices == ((-MaxLen - 1)..(MaxLen + 1)) \cup {CurvePoints - 1, CurvePoints}

\* The values given for LS370's scanner: those of the table, and a string,
\* an integer and a list it does not hold.
ScannerArgs ==
    DictKeys(ScannerChannels)
        \cup {PyStr(<<"3", "7", "0", "0">>), PyInt(8), PyList(<<>>)}
\* The values given for confirm: the bool True, and others, true and false.
ConfirmArgs ==
    {PyBool(TRUE), PyBool(FALSE), PyInt(1), PyInt(0), PyStr(<<"T", "r", "u", "e">>), None}
\* The simple indices given to the Curves of LS370, and the points written.
PointIndices == (0..CurvePoints) \cup {-1, -CurvePoints, -CurvePoints - 1}
PointValues == {<<PyFloat(0, Scale \div 2), PyFloat(0, Scale)>>, <<PyStr(<<"a">>), PyFloat(0, Scale)>>}

\* The appends to the temperature history a behaviour holds: enough to fill
\* the history and to push entries out of it.
MaxTicks == 1445
\* The thermometers of a DAQ, by the attributes they have: NotASensor has
\* neither reading, an instrument may have both or one.
Thermometers == SUBSET {"temperature", "resistance"}
\* What the thermometer reads at the time t: the temperature is t itself or
\* NaN, so that the entries of the history can be told apart.
TemperatureReadings(t) == {NaN, Real(t)}
ResistanceReadings == {NaN, Real(1)}

\* The procedure types given to run: the configured ones and another.
ProcedureTypes == {PyStr("sweep"), PyStr("noise"), PyStr("pulse")}
\* The Parameters of each procedure class with their defaults as declared,
\* None for a Parameter without one.
DeclaredParameters ==
    [Sweep |-> <<<<"frequency", PyInt(1)>>>>,
     Noise |-> <<<<"frequency", PyInt(1)>>, <<"n_triggers", None>>>>]
\* The **kwargs of run: Parameters to override, one the classes do not have.
RunKwargs ==
    {<<>>, <<<<"frequency", PyInt(2)>>>>, <<<<"n_triggers", PyInt(2)>>>>,
     <<<<"frequency", None>>>>, <<<<"frequency", PyInt(2)>>, <<"sample_rate", PyInt(2)>>>>}
\* The dicts a caller writes out for file_name_kwargs.
FileNameKwargs ==
    {<<>>, <<<<"prefix", PyStr("mine")>>>>, <<<<"prefix", None>>>>, <<<<"suffix", PyStr("a")>>>>}
\* The methods of a procedure that may raise.
ProcedureMethods == {"file_name", "startup", "execute", "shutdown", "join"}

\* The values handed to dump, by the codec's class.
DumpArgs(c) ==
    CASE c.kind = "Boolean"  -> {PyBool(TRUE), PyBool(FALSE), PyInt(2), PyStr(<<"a">>)}
      [] c.kind = "Integer"  -> SmallInts \cup LargeInts \cup {PyInt(MaxInt + 1), PyStr(<<"a">>), None}
      [] c.kind = "Float"    -> Floats \cup {PyInt(1), PyStr(<<"a">>)}
      [] c.kind = "String"   -> Strings
      [] c.kind = "Register" -> FlagArgs \cup {PyInt(1)}
      [] OTHER               -> Keys \cup {None}

(***************************************************************************)
(* The state: the constructor call made, the codec it left, the last dump, *)
(* load or simulate call with its outcome, the cursors of the cycle        *)
(* objects made over a Stream, and the iterations that hold them; the      *)
(* Curve a constructor left, and the last read made of it.                 *)
(***************************************************************************)
VARIABLES ctor, codec, call, cycles, iters, curve, read, ls370, did,
          procedures, defaults, kept, ran,
          daq, time_stamps, temperatures, now, updated

\* The LS370 built and the last call made of it.
driver == <<ls370, did>>
\* DAQ.run: the Parameters of the procedure classes; the dict that is the
\* default of file_name_kwargs, made once when run is defined; a dict the
\* caller keeps and may give again; the last call of run.
acq == <<procedures, defaults, kept, ran>>
\* pulse_gui: the module's daq; the two histories; the clock, which counts
\* the appends (time passes between two of them); the last update.
gui == <<daq, time_stamps, temperatures, now, updated>>
vars == <<ctor, codec, call, cycles, iters, curve, read, driver, acq, gui>>

NoCtor == [cls |-> "none", min |-> None, max |-> None, fmt |-> "",
           items |-> <<>>, start |-> 0, step |-> 0, exc |-> ""]
\* op: "none", "dump", "load" or "simulate"; back: the load is made on the
\* token the dump of `of` returned; sim: the dump is made on the value that
\* simulate returned.
NoCall == [op |-> "none", arg |-> None, res |-> Ok(None), back |-> FALSE, of |-> None,
           sim |-> FALSE]

\* An iteration: cyc, its cycle object; pos, the items it has taken; last,
\* the last item taken; sim, it is made by Stream.simulate; exc, how it
\* ended ("" while it goes on).  Of a Stream.simulate: n, the number of
\* items islice is to take; pos, the length of the list being built, last
\* being the codec whose simulate() gave its last element; exc, the
\* exception that call raised, or StopIteration when the cycle ended the
\* islice before n items, the list then being returned as it is.
NewIteration(ref, sim) ==
    [cyc |-> ref, pos |-> 0, last |-> NoCodec, sim |-> sim, exc |-> "", n |-> 0]

\* A read of the Curve: op "none", "item" or "slice", with its arguments
\* and outcome.
NoRead == [op |-> "none", item |-> 0, start |-> None, stop |-> None, step |-> None,
           res |-> Ok(None)]

\* A call of the LS370: op "none", "new", "scanner", "factory_default",
\* "getpoint" or "setpoint"; arg, its argument; which, the Curve (0 for
\* all_curves, i for user_curve[i - 1]) and item, the index; res and sent,
\* its outcome.
NoDid == [op |-> "none", arg |-> None, which |-> 0, item |-> 0, res |-> Ok(None), sent |-> <<>>]

\* A call of run: op "none" or "run"; procedure_type; given, the dict
\* file_name_kwargs was bound to as the call found it, and how it was given
\* (how: "omitted", "literal" or "kept"); raises, the methods of the
\* procedure that raise when called; log, the calls made of the procedure;
\* res, the outcome.
NoRun == [op |-> "none", procedure_type |-> None, how |-> "", given |-> <<>>,
          raises |-> {}, log |-> <<>>, res |-> Ok(None)]

\* An update: the readings it found (Absent: no such attribute, or no daq),
\* the exception it swallowed, the lines it logged.
NoUpdate == [op |-> "none", temperature |-> Absent, resistance |-> Absent,
             exc |-> "", logged |-> <<>>]

Init ==
    /\ ctor = NoCtor
    /\ codec = NoCodec
    /\ call = NoCall
    /\ cycles = <<>>
    /\ iters = <<>>
    /\ curve = NoCurve
    /\ read = NoRead
    /\ ls370 = NoLS370
    /\ did = NoDid
    /\ procedures = DeclaredParameters
    /\ defaults = <<>>
    /\ kept = <<>>
    /\ ran = NoRun
    /\ daq = NoDaq
    /\ time_stamps = <<>>
    /\ temperatures = <<>>
    /\ now = 0
    /\ updated = NoUpdate

\* Each constructor is called on a fresh object: the call records its
\* arguments and the exception raised, if any, and leaves the codec.
NewBoolean ==
    /\ ctor.cls = "none"
    /\ \E fmt \in FmtArgs :
          LET r == BooleanInit(fmt) IN
          /\ ctor' = [NoCtor EXCEPT !.cls = "Boolean", !.fmt = fmt, !.exc = r.exc]
          /\ codec' = r.codec
    /\ UNCHANGED <<call, cycles, iters, curve, read, driver, acq, gui>>

NewInteger ==
    /\ ctor.cls = "none"
    /\ \E min \in IntegerBounds, max \in IntegerBounds, fmt \in FmtArgs :
          LET r == RangeInit("Integer", min, max, fmt) IN
          /\ ctor' = [NoCtor EXCEPT !.cls = "Integer", !.min = min, !.max = max,
                                    !.fmt = fmt, !.exc = r.exc]
          /\ codec' = r.codec
    /\ UNCHANGED <<call, cycles, iters, curve, read, driver, acq, gui>>

NewFloat ==
    /\ ctor.cls = "none"
    /\ \E min \in FloatBounds, max \in FloatBounds, fmt \in FmtArgs :
          LET r == RangeInit("Float", min, max, fmt) IN
          /\ ctor' = [NoCtor EXCEPT !.cls = "Float", !.min = min, !.max = max,
                                    !.fmt = fmt, !.exc = r.exc]
          /\ codec' = r.codec
    /\ UNCHANGED <<call, cycles, iters, curve, read, driver, acq, gui>>

NewString ==
    /\ ctor.cls = "none"
    /\ \E min \in StringBounds, max \in StringBounds, fmt \in FmtArgs :
          LET r == StringInit(min, max, fmt) IN
          /\ ctor' = [NoCtor EXCEPT !.cls = "String", !.min = min, !.max = max,
                                    !.fmt = fmt, !.exc = r.exc]
          /\ codec' = r.codec
    /\ UNCHANGED <<call, cycles, iters, curve, read, driver, acq, gui>>

NewMapping ==
    /\ ctor.cls = "none"
    /\ \E items \in DictsOver(Keys, WireValues) :
          LET r == MappingInit("Mapping", items) IN
          /\ ctor' = [NoCtor EXCEPT !.cls = "Mapping", !.items = items, !.exc = r.exc]
          /\ codec' = r.codec
    /\ UNCHANGED <<call, cycles, iters, curve, read, driver, acq, gui>>

NewSet ==
    /\ ctor.cls = "none"
    /\ \E args \in KeyLists :
          LET r == SetInit(args) IN
          /\ ctor' = [NoCtor EXCEPT !.cls = "Set", !.items = args, !.exc = r.exc]
          /\ codec' = r.codec
    /\ UNCHANGED <<call, cycles, iters, curve, read, driver, acq, gui>>

NewEnum ==
    /\ ctor.cls = "none"
    /\ \E args \in KeyLists, start \in EnumStarts, step \in EnumSteps :
          LET r == EnumInit(args, start, step) IN
          /\ ctor' = [NoCtor EXCEPT !.cls = "Enum", !.items = args, !.start = start,
                                    !.step = step, !.exc = r.exc]
          /\ codec' = r.codec
    /\ UNCHANGED <<call, cycles, iters, curve, read, driver, acq, gui>>

NewRegister ==
    /\ ctor.cls = "none"
    /\ \E layout \in Layouts :
          LET r == RegisterInit(layout) IN
          /\ ctor' = [NoCtor EXCEPT !.cls = "Register", !.items = layout, !.exc = r.exc]
          /\ codec' = r.codec
    /\ UNCHANGED <<call, cycles, iters, curve, read, driver, acq, gui>>

\* codec.dump(x)
DoDump ==
    /\ codec.kind \notin {"none", "Stream"}
    /\ call.op = "none"
    /\ \E x \in DumpArgs(codec) :
          call' = [NoCall EXCEPT !.op = "dump", !.arg = x, !.res = Dump(codec, x)]
    /\ codec' = SelfAfter(codec)
    /\ UNCHANGED <<ctor, cycles, iters, curve, read, driver, acq, gui>>

\* codec.load(token) of a token received from the device
DoLoad ==
    /\ codec.kind \notin {"none", "Stream"}
    /\ call.op = "none"
    /\ \E tok \in Tokens :
          call' = [NoCall EXCEPT !.op = "load", !.arg = tok, !.res = Load(codec, tok)]
    /\ codec' = SelfAfter(codec)
    /\ UNCHANGED <<ctor, cycles, iters, curve, read, driver, acq, gui>>

\* codec.load(codec.dump(x)): the token a dump returned is loaded back.
DoLoadBack ==
    /\ call.op = "dump"
    /\ ~call.sim
    /\ IsOk(call.res)
    /\ call' = [NoCall EXCEPT !.op = "load", !.arg = call.res.val,
                              !.res = Load(codec, call.res.val),
                              !.back = TRUE, !.of = call.arg]
    /\ codec' = SelfAfter(codec)
    /\ UNCHANGED <<ctor, cycles, iters, curve, read, driver, acq, gui>>

\* codec.simulate()
DoSimulate ==
    /\ codec.kind \notin {"none", "Stream"}
    /\ call.op = "none"
    /\ \E r \in Simulate(codec) :
          call' = [NoCall EXCEPT !.op = "simulate", !.res = r]
    /\ codec' = SelfAfter(codec)
    /\ UNCHANGED <<ctor, cycles, iters, curve, read, driver, acq, gui>>

\* codec.dump(codec.simulate()): the value simulate returned is dumped.
DoDumpSimulated ==
    /\ call.op = "simulate"
    /\ IsOk(call.res)
    /\ call' = [NoCall EXCEPT !.op = "dump", !.arg = call.res.val,
                              !.res = Dump(codec, call.res.val), !.sim = TRUE]
    /\ codec' = SelfAfter(codec)
    /\ UNCHANGED <<ctor, cycles, iters, curve, read, driver, acq, gui>>

\* The caller takes the outcome; the codec is ready for the next call.
Return ==
    /\ call.op # "none"
    /\ call' = NoCall
    /\ UNCHANGED <<ctor, codec, cycles, iters, curve, read, driver, acq, gui>>

NewStream ==
    /\ ctor.cls = "none"
    /\ \E types \in StreamArgs :
          LET r == StreamInit(types) IN
          /\ ctor' = [NoCtor EXCEPT !.cls = "Stream", !.items = types, !.exc = r.exc]
          /\ codec' = r.codec
    /\ UNCHANGED <<call, cycles, iters, curve, read, driver, acq, gui>>

NewCurve ==
    /\ ctor.cls = "none"
    /\ \E idx \in CurveIdxs, length \in CurveLengths :
          LET r == CurveInit(idx, length) IN
          /\ ctor' = [NoCtor EXCEPT !.cls = "Curve", !.exc = r.exc]
          /\ curve' = r.curve
    /\ UNCHANGED <<codec, call, cycles, iters, read, driver, acq, gui>>

\* curve[item]
DoGetItem ==
    /\ curve.built
    /\ read.op = "none"
    /\ \E item \in Indices :
          read' = [NoRead EXCEPT !.op = "item", !.item = item,
                                 !.res = CurveGetPoint(curve, item)]
    /\ UNCHANGED <<ctor, codec, call, cycles, iters, curve, driver, acq, gui>>

\* curve[start:stop:step]
DoGetSlice ==
    /\ curve.built
    /\ read.op = "none"
    /\ \E start \in SliceParts, stop \in SliceParts, step \in SliceSteps :
          read' = [NoRead EXCEPT !.op = "slice", !.start = start, !.stop = stop,
                                 !.step = step,
                                 !.res = CurveGetSlice(curve, start, stop, step)]
    /\ UNCHANGED <<ctor, codec, call, cycles, iters, curve, driver, acq, gui>>

\* iter(stream): a caller begins an iteration over the Stream.
DoIter ==
    /\ codec.kind = "Stream"
    /\ Len(iters) < MaxIters
    /\ LET it == StreamIter(cycles) IN
          /\ cycles' = it.heap
          /\ iters' = Append(iters, NewIteration(it.ref, FALSE))
    /\ codec' = SelfAfter(codec)
    /\ UNCHANGED <<ctor, call, curve, read, driver, acq, gui>>

\* stream.simulate() begins: n = random.choice(range(10)) is drawn and
\* islice(self, n) iterates over the Stream.  One call of simulate is
\* followed, among the iterations callers make.
DoStreamSimulate ==
    /\ codec.kind = "Stream"
    /\ Len(iters) < MaxIters
    /\ \A k \in 1..Len(iters) : ~iters[k].sim
    /\ \E n \in 0..(SimStreamLen - 1) :
          LET it == StreamIter(cycles) IN
          /\ cycles' = it.heap
          /\ iters' = Append(iters, [NewIteration(it.ref, TRUE) EXCEPT !.n = n])
    /\ codec' = SelfAfter(codec)
    /\ UNCHANGED <<ctor, call, curve, read, driver, acq, gui>>

\* next(it): the caller of iteration k takes the next codec.
IterNext ==
    /\ \E k \in 1..Len(iters) :
          /\ ~iters[k].sim
          /\ iters[k].exc = ""
          /\ iters[k].pos < MaxTake
          /\ cycles' = [cycles EXCEPT ![iters[k].cyc] =
                            CycleNext(codec.types, cycles[iters[k].cyc]).cur]
          /\ iters' = [iters EXCEPT ![k] =
                LET nx == CycleNext(codec.types, cycles[iters[k].cyc]) IN
                IF nx.stop THEN [@ EXCEPT !.exc = "StopIteration"]
                ELSE [@ EXCEPT !.pos = @ + 1, !.last = nx.item]]
    /\ codec' = SelfAfter(codec)
    /\ UNCHANGED <<ctor, call, curve, read, driver, acq, gui>>

\* A step of stream.simulate(): the next codec is taken and its simulate()
\* called; an exception of that call ends the simulate.
SimulateNext ==
    /\ \E k \in 1..Len(iters) :
          /\ iters[k].sim
          /\ iters[k].exc = ""
          /\ iters[k].pos < iters[k].n
          /\ cycles' = [cycles EXCEPT ![iters[k].cyc] =
                            CycleNext(codec.types, cycles[iters[k].cyc]).cur]
          /\ LET nx == CycleNext(codec.types, cycles[iters[k].cyc]) IN
                IF nx.stop THEN iters' = [iters EXCEPT ![k].exc = "StopIteration"]
                ELSE \E r \in Simulate(nx.item) :
                        iters' = [iters EXCEPT ![k] =
                                    [@ EXCEPT !.pos = @ + 1, !.last = nx.item, !.exc = r.exc]]
    /\ codec' = SelfAfter(codec)
    /\ UNCHANGED <<ctor, call, curve, read, driver, acq, gui>>

Next ==
    \/ NewBoolean
    \/ NewInteger
    \/ NewFloat
    \/ NewString
    \/ NewMapping
    \/ NewSet
    \/ NewEnum
    \/ NewRegister
    \/ NewStream
    \/ NewCurve
    \/ DoDump
    \/ DoLoad
    \/ DoLoadBack
    \/ DoSimulate
    \/ DoDumpSimulated
    \/ Return
    \/ DoIter
    \/ DoStreamSimulate
    \/ IterNext
    \/ SimulateNext
    \/ DoGetItem
    \/ DoGetSlice

Spec == Init /\ [][Next]_vars

(***************************************************************************)
(* The LS370: it is built once, then its scanner is assigned, the factory  *)
(* reset asked for, and points of its Curves read and written.             *)
(***************************************************************************)
codecs == <<ctor, codec, call, cycles, iters, curve, read>>

\* The Curve of the LS370 a call names.
CurveOf(which) == IF which = 0 THEN ls370.all_curves ELSE ls370.user_curve[which]

\* LS370(transport, scanner), scanner left out or given
NewLS370 ==
    /\ ~ls370.built
    /\ did.op = "none"
    /\ \E scanner \in ScannerArgs \cup {Omitted} :
          \E r \in {LS370Init(DefaultOf(scanner, None))} :
          /\ ls370' = r.self
          /\ did' = [NoDid EXCEPT !.op = "new", !.arg = scanner, !.res.exc = r.exc]
    /\ UNCHANGED <<codecs, acq, gui>>

\* ls370.scanner = value
DoSetScanner ==
    /\ ls370.built
    /\ did.op = "none"
    /\ \E value \in ScannerArgs :
          \E r \in {ScannerSet(ls370, value)} :
          /\ ls370' = r.self
          /\ did' = [NoDid EXCEPT !.op = "scanner", !.arg = value, !.res.exc = r.exc]
    /\ UNCHANGED <<codecs, acq, gui>>

\* ls370._factory_default(confirm), confirm left out or given
DoFactoryDefault ==
    /\ ls370.built
    /\ did.op = "none"
    /\ \E confirm \in ConfirmArgs \cup {Omitted} :
          \E r \in {FactoryDefault(DefaultOf(confirm, PyBool(FALSE)))} :
          did' = [NoDid EXCEPT !.op = "factory_default", !.arg = confirm,
                               !.res = r.res, !.sent = r.sent]
    /\ UNCHANGED <<codecs, ls370, acq, gui>>

\* ls370.all_curves[item], ls370.user_curve[i][item]
DoGetPoint ==
    /\ ls370.built
    /\ did.op = "none"
    /\ \E which \in 0..UserCurves, item \in PointIndices :
          did' = [NoDid EXCEPT !.op = "getpoint", !.which = which, !.item = item,
                               !.res = CurveGetPoint(CurveOf(which), item)]
    /\ UNCHANGED <<codecs, ls370, acq, gui>>

\* ls370.all_curves[item] = value, ls370.user_curve[i][item] = value
DoSetPoint ==
    /\ ls370.built
    /\ did.op = "none"
    /\ \E which \in 0..UserCurves, item \in PointIndices, value \in PointValues :
          \E r \in {CurveSetPoint(CurveOf(which), item, value)} :
          did' = [NoDid EXCEPT !.op = "setpoint", !.which = which, !.item = item,
                               !.arg = PyList(value), !.res = r.res, !.sent = r.sent]
    /\ UNCHANGED <<codecs, ls370, acq, gui>>

\* The caller takes the outcome; the LS370 is ready for the next call.
ReturnLS370 ==
    /\ did.op # "none"
    /\ did' = NoDid
    /\ UNCHANGED <<codecs, ls370, acq, gui>>

NextLS370 ==
    \/ NewLS370
    \/ DoSetScanner
    \/ DoFactoryDefault
    \/ DoGetPoint
    \/ DoSetPoint
    \/ ReturnLS370

SpecLS370 == Init /\ [][NextLS370]_vars

(***************************************************************************)
(* The DAQ: run is called again and again, each call running to its end    *)
(* before the next.                                                        *)
(***************************************************************************)
\* daq.run(procedure_type, **kwargs), file_name_kwargs left out: it is bound
\* to the default dict.
DoRunOmitted ==
    /\ ran.op = "none"
    /\ \E procedure_type \in ProcedureTypes, kwargs \in RunKwargs,
          raises \in SUBSET ProcedureMethods :
          IF ~DictHas(ConfigProcedures, procedure_type)
          THEN /\ ran' = [NoRun EXCEPT !.op = "run", !.procedure_type = procedure_type,
                                       !.how = "omitted", !.given = defaults,
                                       !.res = Raise("KeyError", "procedure_class")]
               /\ UNCHANGED <<procedures, defaults>>
          ELSE \E r \in {Run(procedure_type,
                             procedures[DictGet(ConfigProcedures, procedure_type)],
                             defaults, kwargs, raises)} :
                  /\ ran' = [NoRun EXCEPT !.op = "run", !.procedure_type = procedure_type,
                                          !.how = "omitted", !.given = defaults,
                                          !.raises = raises, !.log = r.log, !.res = r.res]
                  /\ procedures' = [procedures EXCEPT
                                       ![DictGet(ConfigProcedures, procedure_type)] = r.params]
                  /\ defaults' = r.d
    /\ UNCHANGED <<codecs, driver, kept, gui>>

\* daq.run(procedure_type, {...}, **kwargs): a dict written out in the call.
DoRunLiteral ==
    /\ ran.op = "none"
    /\ \E procedure_type \in ProcedureTypes, d \in FileNameKwargs, kwargs \in RunKwargs,
          raises \in SUBSET ProcedureMethods :
          IF ~DictHas(ConfigProcedures, procedure_type)
          THEN /\ ran' = [NoRun EXCEPT !.op = "run", !.procedure_type = procedure_type,
                                       !.how = "literal", !.given = d,
                                       !.res = Raise("KeyError", "procedure_class")]
               /\ UNCHANGED procedures
          ELSE \E r \in {Run(procedure_type,
                             procedures[DictGet(ConfigProcedures, procedure_type)],
                             d, kwargs, raises)} :
                  /\ ran' = [NoRun EXCEPT !.op = "run", !.procedure_type = procedure_type,
                                          !.how = "literal", !.given = d,
                                          !.raises = raises, !.log = r.log, !.res = r.res]
                  /\ procedures' = [procedures EXCEPT
                                       ![DictGet(ConfigProcedures, procedure_type)] = r.params]
    /\ UNCHANGED <<codecs, driver, defaults, kept, gui>>

\* daq.run(procedure_type, kept, **kwargs): a dict the caller keeps.
DoRunKept ==
    /\ ran.op = "none"
    /\ \E procedure_type \in ProcedureTypes, kwargs \in RunKwargs,
          raises \in SUBSET ProcedureMethods :
          IF ~DictHas(ConfigProcedures, procedure_type)
          THEN /\ ran' = [NoRun EXCEPT !.op = "run", !.procedure_type = procedure_type,
                                       !.how = "kept", !.given = kept,
                                       !.res = Raise("KeyError", "procedure_class")]
               /\ UNCHANGED <<procedures, kept>>
          ELSE \E r \in {Run(procedure_type,
                             procedures[DictGet(ConfigProcedures, procedure_type)],
                             kept, kwargs, raises)} :
                  /\ ran' = [NoRun EXCEPT !.op = "run", !.procedure_type = procedure_type,
                                          !.how = "kept", !.given = kept,
                                          !.raises = raises, !.log = r.log, !.res = r.res]
                  /\ procedures' = [procedures EXCEPT
                                       ![DictGet(ConfigProcedures, procedure_type)] = r.params]
                  /\ kept' = r.d
    /\ UNCHANGED <<codecs, driver, defaults, gui>>

\* The caller takes the outcome of run.
ReturnRun ==
    /\ ran.op # "none"
    /\ ran' = NoRun
    /\ UNCHANGED <<codecs, driver, procedures, defaults, kept, gui>>

NextDAQ ==
    \/ DoRunOmitted
    \/ DoRunLiteral
    \/ DoRunKept
    \/ ReturnRun

SpecDAQ == Init /\ [][NextDAQ]_vars

(***************************************************************************)
(* The pulse GUI: the window is made, and the timer calls update again and *)
(* again.                                                                  *)
(***************************************************************************)
\* pulse_window: daq = DAQ("UCSB") when there is none yet.
PulseWindow ==
    /\ ~daq.made
    /\ \E th \in Thermometers : daq' = [made |-> TRUE, thermometer |-> th]
    /\ UNCHANGED <<codecs, driver, acq, time_stamps, temperatures, now, updated>>

\* The timer fires: TemperatureUpdater.update().
DoUpdate ==
    /\ now < MaxTicks
    /\ \E temperature \in IF "temperature" \in daq.thermometer
                          THEN TemperatureReadings(now + 1) ELSE {Absent},
          resistance \in IF "resistance" \in daq.thermometer
                         THEN ResistanceReadings ELSE {Absent} :
          \E r \in {Update(time_stamps, temperatures, now + 1, temperature, resistance)} :
             /\ time_stamps' = r.time_stamps
             /\ temperatures' = r.temperatures
             /\ now' = IF r.time_stamps = time_stamps THEN now ELSE now + 1
             /\ updated' = [op |-> "update", temperature |-> temperature,
                            resistance |-> resistance, exc |-> r.exc, logged |-> r.logged]
    /\ UNCHANGED <<codecs, driver, acq, daq>>

NextGui ==
    \/ PulseWindow
    \/ DoUpdate

SpecGui == Init /\ [][NextGui]_vars

(***************************************************************************)
(* Properties.                                                             *)
(***************************************************************************)
\* The value lies within the bounds given to the constructor (a length, for
\* a string); an absent bound admits everything.
Measure(x) == IF x.t = "str" THEN PyInt(Len(x.v)) ELSE x
BelowMin(x) == ctor.min # None /\ NumLt(Measure(x), ctor.min)
AboveMax(x) == ctor.max # None /\ NumLt(ctor.max, Measure(x))
InDeclaredBounds(x) == ~BelowMin(x) /\ ~AboveMax(x)

\* The positions of key k in the argument list of Set / Enum.
Positions(k) == {i \in 1..Len(ctor.items) : ctor.items[i] = k}
\* The keys declared to the constructor of a Mapping-family codec.
DeclaredKeys ==
    IF ctor.cls = "Mapping" THEN {ctor.items[i][1] : i \in 1..Len(ctor.items)}
    ELSE {ctor.items[i] : i \in 1..Len(ctor.items)}

\* C1: round trip of the Mapping family: for every constructed Mapping, Set
\* and Enum codec and every declared key k, dump(k) succeeds and
\* load(dump(k)) returns k.
MappingRoundTrip ==
    (codec.kind \in MappingKinds /\ call.arg \in DeclaredKeys /\ call.op = "dump"
        => IsOk(call.res))
    /\ (codec.kind \in MappingKinds /\ call.back /\ call.of \in DeclaredKeys
        => call.res = Ok(call.of))

\* C2: bijection at construction: a Mapping-family constructor given two
\* distinct keys of the same wire token raises, so that no constructed codec
\* has two keys of one token, or an inverse map smaller than its forward map.
BijectionAtConstruction ==
    codec.kind \in MappingKinds =>
        /\ \A i, j \in 1..Len(codec.map) : codec.map[i][2] = codec.map[j][2] => i = j
        /\ Len(codec.inv) = Len(codec.map)

\* The value is of the type the codec of this class represents.
OfCodecType(x) ==
    CASE codec.kind = "Boolean" -> x.t = "bool"
      [] codec.kind = "Integer" -> x.t = "int"
      [] codec.kind = "String"  -> x.t = "str"
      [] OTHER                  -> FALSE
\* The format the class uses when the constructor is given none.
HasDefaultFormat == ctor.fmt = ""

\* C3: round trip of the scalar codecs: for every Boolean, Integer and
\* String codec with the default format and every value v of the codec's
\* type within its declared bounds, dump(v) succeeds and load(dump(v))
\* returns v.
ScalarRoundTrip ==
    (HasDefaultFormat /\ call.op = "dump" /\ OfCodecType(call.arg) /\ InDeclaredBounds(call.arg)
        => IsOk(call.res))
    /\ (HasDefaultFormat /\ call.back /\ OfCodecType(call.of) /\ InDeclaredBounds(call.of)
        => call.res = Ok(call.of))

\* C4: bounds rejection on encode: for every Integer codec with a declared
\* min and/or max and every integer v, dump(v) raises the validation error
\* when v < min or v > max and returns v's decimal string otherwise, the
\* bounds themselves included.
IntegerEncodeBounds ==
    (codec.kind = "Integer" /\ (ctor.min # None \/ ctor.max # None)
        /\ call.op = "dump" /\ call.arg.t = "int")
    => call.res = IF InDeclaredBounds(call.arg) THEN Ok(PyStr(DecOfPair(call.arg.v)))
                  ELSE Raise("ValueError", "validate")

\* The number a token denotes for a codec of this class, where it denotes
\* one: the float it spells, truncated for an Integer codec.
Denotes(tok) ==
    CASE codec.kind = "Float"   -> FloatOf(tok)
      [] codec.kind = "Integer" -> (IF IsOk(FloatOf(tok)) THEN IntOf(FloatOf(tok).val) ELSE FloatOf(tok))
      [] OTHER                  -> Ok(tok)

BoundsOrdered ==
    /\ (ctor.cls \in RangeKinds \cup {"String"} /\ ctor.min # None /\ ctor.max # None
           /\ NumLt(ctor.max, ctor.min))
       => ctor.exc # ""
    /\ (codec.kind \in RangeKinds \cup {"String"} /\ codec.min # None /\ codec.max # None)
       => ~NumLt(codec.max, codec.min)

\* The token a Mapping-family codec looks up for a received token: the
\* token itself, and for an Enum the canonical spelling of the integer it
\* spells; a token that spells no integer has no entry to look up.
IsIntSpelling(q) == Unsigned(q) # <<>> /\ AllDigits(Unsigned(q))
Canonical(q) == PyStr(DecOfPair(Signed(q, MagOfDigits(Unsigned(q)))))
HasInverseEntry(tok) ==
    IF codec.kind = "Enum"
    THEN IsIntSpelling(tok.v) /\ DictHas(codec.inv, Canonical(tok.v))
    ELSE DictHas(codec.inv, tok)

\* C7: error contract of the Mapping family: dump(key) raises the
\* unknown-key error (the ValueError of Mapping.__convert__) exactly when the
\* key has no forward entry; load(token) raises the unknown-value error (the
\* TypeError of Mapping.load) exactly when the token has no inverse entry,
\* and for an Enum a token that spells no integer raises that same error.
MappingErrorContract ==
    /\ (codec.kind \in MappingKinds /\ call.op = "dump")
       => IF DictHas(codec.map, call.arg) THEN IsOk(call.res)
          ELSE call.res = Raise("ValueError", "convert")
    /\ (codec.kind \in MappingKinds /\ call.op = "load")
       => IF HasInverseEntry(call.arg) THEN IsOk(call.res)
          ELSE call.res = Raise("TypeError", "load")

\* The token of position i (from 1) of an Enum's argument list.
EnumToken(i) == PyStr(DecOfPair(<<0, ctor.start + (i - 1) * ctor.step>>))

\* C8 as stated: Enum token assignment: for an Enum built from the keys
\* k_0 .. k_(n-1) with start and step, dump(k_i) is the decimal string of
\* start + i * step for every position i, and load of that string is k_i.
EnumTokenAssignment ==
    /\ (codec.kind = "Enum" /\ call.op = "dump")
       => \A i \in Positions(call.arg) : call.res = Ok(EnumToken(i))
    /\ (codec.kind = "Enum" /\ call.op = "load")
       => \A i \in 1..Len(ctor.items) :
             call.arg = EnumToken(i) => call.res = Ok(ctor.items[i])

\* Position i holds the last occurrence of its key.
IsLastPosition(i) == \A j \in Positions(ctor.items[i]) : j <= i

\* C8 as amended: the same for every position i whose key does not occur
\* again later in the list: a key given more than once takes the token of
\* its last position alone.
EnumTokenAssignmentLast ==
    /\ (codec.kind = "Enum" /\ call.op = "dump")
       => \A i \in Positions(call.arg) :
             IsLastPosition(i) => call.res = Ok(EnumToken(i))
    /\ (codec.kind = "Enum" /\ call.op = "load")
       => \A i \in 1..Len(ctor.items) :
             (IsLastPosition(i) /\ call.arg = EnumToken(i)) => call.res = Ok(ctor.items[i])

\* The token dumped for the second key of an Enum of step 2 has been loaded
\* back to that key.
EnumTokenAssignmentWitness ==
    /\ codec.kind = "Enum"
    /\ ctor.step = 2
    /\ Len(ctor.items) = 2
    /\ ctor.items[1] # ctor.items[2]
    /\ call.back
    /\ call.of = ctor.items[2]
    /\ call.arg = EnumToken(2)
    /\ call.res = Ok(ctor.items[2])

\* Two spellings of one integer that differ in leading zeros only.
SameButLeadingZeros(p, q) ==
    /\ IsIntSpelling(p) /\ IsIntSpelling(q)
    /\ (p[1] = "-") = (q[1] = "-")
    /\ StripZeros(Unsigned(p)) = StripZeros(Unsigned(q))

\* C9: Enum normalization: for every Enum codec, load has the same outcome
\* on any two tokens that spell the same integer up to leading zeros; and
\* for an Enum of two keys with start 0, load("0") = load("00") = the first
\* key and load("01") = the second.
EnumNormalization ==
    (codec.kind = "Enum" /\ call.op = "load")
    => /\ \A tok \in Tokens :
             SameButLeadingZeros(tok.v, call.arg.v) => Load(codec, tok) = call.res
       /\ (Len(ctor.items) = 2 /\ ctor.items[1] # ctor.items[2]
              /\ ctor.start = 0 /\ ctor.step = 1)
          => /\ call.arg.v \in {<<"0">>, <<"0", "0">>} => call.res = Ok(ctor.items[1])
             /\ call.arg.v = <<"0", "1">> => call.res = Ok(ctor.items[2])

\* "01" has been loaded by an Enum of two keys and start 0, and gave the
\* second key.
EnumNormalizationWitness ==
    /\ codec.kind = "Enum"
    /\ Len(ctor.items) = 2
    /\ ctor.start = 0
    /\ ctor.step = 1
    /\ call.op = "load"
    /\ call.arg.v = <<"0", "1">>
    /\ call.res = Ok(ctor.items[2])
    /\ ctor.items[1] # ctor.items[2]

\* C10: Register.dump rejects unknown flags: for every Register codec, dump
\* of a flags mapping holding a name that the bit layout lacks raises the
\* unknown-key error, whether the name's value is true or false.
RegisterRejectsUnknownFlags ==
    (codec.kind = "Register" /\ call.op = "dump" /\ call.arg.t = "dict"
        /\ \E k \in DictKeys(call.arg.v) : ~DictHas(codec.map, k))
    => (~IsOk(call.res) /\ call.res.exc \in {"KeyError", "ValueError"})

\* The layout {bit: name} given to Register: its names, the flags of a dict
\* that hold a true value, and whether entry i is the last of its name.
DeclaredFlagNames == {ctor.items[i][2] : i \in 1..Len(ctor.items)}
FlagIsTrue(flags, name) == DictHas(flags, name) /\ Truthy(DictGet(flags, name))
IsLastEntry(i) ==
    \A j \in 1..Len(ctor.items) : ctor.items[j][2] = ctor.items[i][2] => j <= i
\* The sum of 1 << bit over the entries of the layout picked by Counts, from
\* entry i on (the bits of a layout are distinct, so the sum is the or).
RECURSIVE LayoutBits(_, _, _)
LayoutBits(flags, Counts(_), i) ==
    IF i > Len(ctor.items) THEN 0
    ELSE (IF Counts(i) /\ FlagIsTrue(flags, ctor.items[i][2])
          THEN Pow2(ctor.items[i][1].v[2]) ELSE 0)
         + LayoutBits(flags, Counts, i + 1)
AnyEntry(i) == TRUE
IsFlagsOverLayout(x) == x.t = "dict" /\ DictKeys(x.v) \subseteq DeclaredFlagNames

\* C11 as stated: Register pack: for every Register codec of layout
\* {bit: name} and every flags mapping over declared names, dump(flags) is the
\* decimal string of the or of 1 << bit over the entries of the layout whose
\* flag is true; false flags contribute nothing.
RegisterPackLayout ==
    (codec.kind = "Register" /\ call.op = "dump" /\ IsFlagsOverLayout(call.arg))
    => call.res = Ok(PyStr(DecOfNat(LayoutBits(call.arg.v, AnyEntry, 1))))

\* C11 as amended: the same over the entries of the layout whose name does
\* not occur again in a later entry: a name given to several bits packs into
\* the bit of its last entry alone.
RegisterPackLastEntry ==
    (codec.kind = "Register" /\ call.op = "dump" /\ IsFlagsOverLayout(call.arg))
    => call.res = Ok(PyStr(DecOfNat(LayoutBits(call.arg.v, IsLastEntry, 1))))

\* Register({0: "a", 1: "b"}) has dumped {"a": True, "b": False} to "1".
RegisterPackWitness ==
    /\ codec.kind = "Register"
    /\ ctor.items = <<<<PyInt(0), PyStr(<<"a">>)>>, <<PyInt(1), PyStr(<<"b">>)>>>>
    /\ call.op = "dump"
    /\ call.arg = PyDict(<<<<PyStr(<<"a">>), PyBool(TRUE)>>, <<PyStr(<<"b">>), PyBool(FALSE)>>>>)
    /\ call.res = Ok(PyStr(<<"1">>))

\* The result is a dict over exactly the declared names in which the name of
\* every entry of the layout picked by Counts tells whether the entry's bit
\* is set in n.
IsUnpacked(r, n, Counts(_)) ==
    /\ IsOk(r) /\ r.val.t = "dict"
    /\ DictKeys(r.val.v) = DeclaredFlagNames
    /\ \A i \in 1..Len(ctor.items) :
          Counts(i) => DictGet(r.val.v, ctor.items[i][2])
                          = PyBool(BitIsSet(n, ctor.items[i][1].v[2]))
\* The integer a token spells (an integer of the model below 2^53).
SmallIntOf(tok) == Signed(tok.v, MagOfDigits(Unsigned(tok.v)))[2]
IsSmallIntToken(tok) == IsIntSpelling(tok.v) /\ MagOfDigits(Unsigned(tok.v))[1] = 0

\* C12 as stated: Register unpack: for every Register codec and every integer
\* token, load(token) returns a mapping whose keys are exactly the declared
\* names, the name of each entry of the layout mapped to whether the entry's
\* bit is set in the integer; bits outside the layout are ignored.
RegisterUnpackLayout ==
    (codec.kind = "Register" /\ call.op = "load" /\ IsSmallIntToken(call.arg))
    => IsUnpacked(call.res, SmallIntOf(call.arg), AnyEntry)

\* C12 as amended: the same for the entries whose name does not occur again
\* in a later entry: a name given to several bits reports the bit of its
\* last entry alone.
RegisterUnpackLastEntry ==
    (codec.kind = "Register" /\ call.op = "load" /\ IsSmallIntToken(call.arg))
    => IsUnpacked(call.res, SmallIntOf(call.arg), IsLastEntry)

\* Register({0: "a", 1: "b"}) has loaded "2" to {"a": False, "b": True}.
RegisterUnpackWitness ==
    /\ codec.kind = "Register"
    /\ ctor.items = <<<<PyInt(0), PyStr(<<"a">>)>>, <<PyInt(1), PyStr(<<"b">>)>>>>
    /\ call.op = "load"
    /\ call.arg = PyStr(<<"2">>)
    /\ call.res = Ok(PyDict(<<<<PyStr(<<"a">>), PyBool(FALSE)>>, <<PyStr(<<"b">>), PyBool(TRUE)>>>>))

\* d == e of two dicts: the same keys with the same values, in any order.
DictEq(d, e) == {d[i] : i \in 1..Len(d)} = {e[i] : i \in 1..Len(e)}
IsFullFlags(x) ==
    /\ x.t = "dict"
    /\ DictKeys(x.v) = DeclaredFlagNames
    /\ \A i \in 1..Len(x.v) : x.v[i][2].t = "bool"

\* C13: Register round trip: for every Register codec and every flags mapping
\* that gives a boolean to each declared name, dump(flags) succeeds and
\* load(dump(flags)) equals flags.
RegisterRoundTrip ==
    /\ (codec.kind = "Register" /\ call.op = "dump" /\ IsFullFlags(call.arg))
       => IsOk(call.res)
    /\ (codec.kind = "Register" /\ call.back /\ IsFullFlags(call.of))
       => (IsOk(call.res) /\ call.res.val.t = "dict" /\ DictEq(call.res.val.v, call.of.v))

\* The flags {"b": True, "a": True} of a Register of two names have been
\* dumped and loaded back.
RegisterRoundTripWitness ==
    /\ codec.kind = "Register"
    /\ call.back
    /\ call.of = PyDict(<<<<PyStr(<<"b">>), PyBool(TRUE)>>, <<PyStr(<<"a">>), PyBool(TRUE)>>>>)
    /\ IsOk(call.res)
    /\ DictEq(call.res.val.v, call.of.v)

\* C14: codec immutability: no dump, load or simulate call, returning or
\* raising, and no iteration over a Stream, changes the state a constructor
\* left (format, min / max, forward and inverse map, bit layout, list of
\* codecs): once built, the codec stays as it is.
CodecImmutable == [][codec # NoCodec => codec' = codec]_vars

\* A simulate call on a built codec has raised.
CodecImmutableWitness ==
    /\ codec # NoCodec
    /\ call.op = "simulate"
    /\ ~IsOk(call.res)

\* C15: Stream cycling: for every Stream over a non-empty list of codecs,
\* the i-th codec (from 0) an iteration takes is codecs[i mod len(codecs)],
\* every iteration starting at codecs[0] whatever other iterations took.
StreamCycling ==
    (codec.kind = "Stream" /\ codec.types # <<>>)
    => \A k \in 1..Len(iters) :
          iters[k].pos > 0
          => iters[k].last = codec.types[((iters[k].pos - 1) % Len(codec.types)) + 1]

\* An iteration over Stream(Float, Integer) has taken four codecs, the
\* fourth being the Integer.
StreamCyclingWitness ==
    /\ codec.kind = "Stream"
    /\ ctor.items = <<ClassOf("Float"), ClassOf("Integer")>>
    /\ \E k \in 1..Len(iters) :
          /\ ~iters[k].sim
          /\ iters[k].pos = 4
          /\ iters[k].last.kind = "Integer"

\* C16: Stream concurrency safety: when iterations over one Stream are
\* interleaved, a step that leaves an iteration's position as it was leaves
\* the codec it takes next as it was too, and that codec is the one at its
\* own position modulo the length: no cursor is shared.
StreamNoSharedCursor ==
    [][\A k \in 1..Len(iters) :
          /\ (k <= Len(iters') /\ iters'[k].pos = iters[k].pos)
             => cycles'[iters'[k].cyc] = cycles[iters[k].cyc]
          /\ codec.types # <<>>
             => cycles[iters[k].cyc] = iters[k].pos % Len(codec.types)]_vars

\* Two iterations over a Stream of two codecs are under way, one having
\* taken three codecs and the other one.
StreamNoSharedCursorWitness ==
    /\ codec.kind = "Stream"
    /\ Len(codec.types) = 2
    /\ Len(iters) = 2
    /\ iters[1].pos = 3 /\ iters[1].exc = ""
    /\ iters[2].pos = 1 /\ iters[2].exc = ""

\* The indices a slice addresses in a sequence of length L: a negative start
\* or stop counts from the end, an absent one is the end the step starts
\* from or runs to, and only indices of 0 .. L - 1 are addressed, every
\* |step|-th from the first one on.
SliceStep == IF read.step = None THEN 1 ELSE read.step.v[2]
FromEnd(part, L) == IF part.v[2] < 0 THEN part.v[2] + L ELSE part.v[2]
Addressed(L) ==
    LET InRun(i) ==
            IF SliceStep > 0
            THEN (read.start = None \/ i >= FromEnd(read.start, L))
                 /\ (read.stop = None \/ i < FromEnd(read.stop, L))
            ELSE (read.start = None \/ i <= FromEnd(read.start, L))
                 /\ (read.stop = None \/ i > FromEnd(read.stop, L))
        run   == {i \in 0..(L - 1) : InRun(i)}
        first == IF SliceStep > 0 THEN CHOOSE i \in run : \A j \in run : i <= j
                 ELSE CHOOSE i \in run : \A j \in run : i >= j
        every == IF SliceStep > 0 THEN SliceStep ELSE -SliceStep
        n     == IF run = {} THEN 0
                 ELSE Cardinality({i \in run :
                         (IF i > first THEN i - first ELSE first - i) % every = 0})
    IN  [k \in 1..n |-> first + (k - 1) * SliceStep]
\* The points of the device at those indices, the device counting from 1.
PointsAt(idxs) == PyList([k \in 1..Len(idxs) |-> PyInt(idxs[k] + 1)])

StringEncodeBounds ==
    (codec.kind = "String" /\ HasDefaultFormat /\ call.op = "dump" /\ call.arg.t = "str")
    => call.res = IF InDeclaredBounds(call.arg) THEN Ok(call.arg)
                  ELSE Raise("ValueError", "validate")

\* The value lies in the domain of the codec: an integer or a string within
\* the declared bounds, a declared key, flags over exactly the declared names.
InDomain(x) ==
    CASE codec.kind = "Integer"  -> x.t = "int" /\ InDeclaredBounds(x)
      [] codec.kind = "String"   -> x.t = "str" /\ InDeclaredBounds(x)
      [] codec.kind = "Register" -> x.t = "dict" /\ DictKeys(x.v) = DictKeys(codec.map)
      [] OTHER                   -> x \in DeclaredKeys

\* C19: simulate() validity: for every Integer, String, Mapping, Set, Enum
\* and Register codec, simulate() returns a value of the codec's domain, and
\* dump of that value does not raise.
SimulateValid ==
    codec.kind \in {"Integer", "String", "Register"} \cup MappingKinds
    => /\ call.op = "simulate" => (IsOk(call.res) /\ InDomain(call.res.val))
       /\ (call.op = "dump" /\ call.sim) => IsOk(call.res)

\* `b or d` of a declared bound b, and the bound when declared, else d.
OrElse(b, d) == IF Truthy(b) THEN b.v[2] ELSE d
DeclaredOr(b, d) == IF b = None THEN d ELSE b.v[2]

\* C20 as stated: String simulate length: for every String codec, simulate()
\* returns a string whose length L satisfies (min or 1) <= L <= (max or 10).
StringSimulateLength ==
    (codec.kind = "String" /\ call.op = "simulate")
    => /\ IsOk(call.res)
       /\ OrElse(ctor.min, 1) <= Len(call.res.val.v)
       /\ Len(call.res.val.v) <= OrElse(ctor.max, 10)

\* C20 as amended: with lo = min when a min is declared (0 included), else
\* 1, and hi = max when a max is declared (0 included), else 10: simulate()
\* returns a string of length exactly lo when lo >= hi, and of a length L
\* with lo <= L <= hi otherwise.
StringSimulateLengthDeclared ==
    (codec.kind = "String" /\ call.op = "simulate")
    => LET lo == DeclaredOr(ctor.min, 1)
           hi == DeclaredOr(ctor.max, 10)
           L  == Len(call.res.val.v)
       IN  /\ IsOk(call.res)
           /\ IF lo >= hi THEN L = lo ELSE (lo <= L /\ L <= hi)

\* String(min=0) has simulated the empty string.
StringSimulateLengthWitness ==
    /\ codec.kind = "String"
    /\ ctor.min = PyInt(0)
    /\ ctor.max = None
    /\ call.op = "simulate"
    /\ call.res = Ok(PyStr(<<>>))

\* C21: Stream simulate: for every Stream, simulate() terminates and returns
\* a list of n items, 0 <= n <= 9, the item at each position i being given
\* by simulate() of codecs[i mod len(codecs)]: no item's simulate() raises,
\* the list never grows beyond the length drawn, and its last item so far is
\* the one of the codec at its position.
StreamSimulateContract ==
    codec.kind = "Stream"
    => \A k \in 1..Len(iters) :
          iters[k].sim
          => /\ iters[k].exc \in {"", "StopIteration"}
             /\ iters[k].pos <= iters[k].n
             /\ iters[k].n <= 9
             /\ iters[k].pos > 0
                => iters[k].last = codec.types[((iters[k].pos - 1) % Len(codec.types)) + 1]

\* The token spells a decimal number: an optional "-", digits, at most one
\* "." among them.
SpellsDecimal(q) == IsOk(FloatOfStr(q))
\* The decimal number the token spells, truncated toward zero: the integer
\* its digits before the "." denote, with the sign.
TruncatedDecimal(q) ==
    LET body == Unsigned(q)
        dot  == IF Dots(body) = {} THEN Len(body) + 1 ELSE CHOOSE i \in Dots(body) : TRUE
        ip   == SubSeq(body, 1, dot - 1)
        p    == Signed(q, MagOfDigits(IF ip = <<>> THEN <<"0">> ELSE ip))
    IN  BigInt(p[1], p[2])
\* The format of the codec: the one given, '{0}' when none is.
DeclaredFormat == IF ctor.fmt = "" THEN "{0}" ELSE ctor.fmt

\* C22: Integer truncation and step order: load of a token that spells a
\* decimal number x returns x truncated toward zero ("2.0" loads as 2); dump
\* converts its argument as load does, and reports a failure of that
\* conversion whatever the bounds are, then raises the validation error if
\* the converted value lies outside the declared bounds, and formats the
\* converted value otherwise.
IntegerTruncationAndOrder ==
    codec.kind = "Integer"
    => /\ (call.op = "load" /\ SpellsDecimal(call.arg.v))
          => call.res = Ok(TruncatedDecimal(call.arg.v))
       /\ call.op = "dump"
          => LET conv == Load(codec, call.arg) IN
             call.res = IF ~IsOk(conv) THEN conv
                        ELSE IF ~InDeclaredBounds(conv.val) THEN Raise("ValueError", "validate")
                        ELSE Format(DeclaredFormat, conv.val)

\* The reset command on the wire: 'DFLT' with the token of 99.
ResetMessage == [header |-> "DFLT", args |-> <<<<"9", "9">>>>]

\* C23: factory-reset guard: _factory_default sends the reset command
\* ('DFLT' with argument 99), once, only when confirm is the bool True; for
\* every other argument (confirm left out, False, or any other value, true
\* ones included) it raises ValueError and sends nothing.
FactoryResetGuard ==
    did.op = "factory_default"
    => IF did.arg = PyBool(TRUE)
       THEN did.res = Ok(None) /\ did.sent = <<ResetMessage>>
       ELSE did.res.exc = "ValueError" /\ did.sent = <<>>

\* _factory_default(1) has raised ValueError and sent nothing.
FactoryResetGuardWitness ==
    /\ did.op = "factory_default"
    /\ did.arg = PyInt(1)
    /\ did.res.exc = "ValueError"
    /\ did.sent = <<>>

\* The channels of each scanner option: None 1, '3708' 8, '3716' and '3716L'
\* 16; no other value is an option.
IsScannerOption(x) ==
    x \in {None, PyStr(<<"3", "7", "0", "8">>), PyStr(<<"3", "7", "1", "6">>),
           PyStr(<<"3", "7", "1", "6", "L">>)}
ChannelCount(x) ==
    IF x = None THEN 1 ELSE IF x = PyStr(<<"3", "7", "0", "8">>) THEN 8 ELSE 16

\* C26: LS370 scanner / input consistency: after construction and after any
\* sequence of assignments to LS370.scanner, len(input) is the channel count
\* of the current scanner value and the maximum of the first codec of
\* input.scan is len(input); an assignment of an option succeeds and keeps
\* it, an assignment of any other value raises, and a construction or
\* assignment that raises leaves scanner and input as they were.
ScannerInputConsistent ==
    /\ [](ls370.built
          => /\ IsScannerOption(ls370.scanner)
             /\ Len(ls370.input.channels) = ChannelCount(ls370.scanner)
             /\ ls370.input.scan[1].max = PyInt(Len(ls370.input.channels))
             /\ did.op = "scanner"
                => IF IsScannerOption(did.arg)
                   THEN did.res.exc = "" /\ ls370.scanner = did.arg
                   ELSE did.res.exc # "")
    /\ [][(did'.op \in {"new", "scanner"} /\ did'.res.exc # "") => ls370' = ls370]_vars

\* With the scanner '3716' in use, the assignment of '3700' has raised
\* KeyError, the 16 channels staying.
ScannerInputConsistentWitness ==
    /\ did.op = "scanner"
    /\ did.arg = PyStr(<<"3", "7", "0", "0">>)
    /\ did.res.exc = "KeyError"
    /\ ls370.scanner = PyStr(<<"3", "7", "1", "6">>)
    /\ Len(ls370.input.channels) = 16

\* C28: curve point commands are always encodable: for every Curve the
\* LS370 builds (all_curves of curve index 0, user_curve of indices 1 .. 20,
\* each of 200 points) and every position item of 0 .. len(curve) - 1, the
\* curve index and the point index item + 1 of the point read and the point
\* write lie within the bounds of their codecs (Integer(min=1) and
\* Integer(min=1, max=200)): the access raises no validation error.
CurvePointsEncodable ==
    (/\ ls370.built
     /\ did.op \in {"getpoint", "setpoint"}
     /\ 0 <= did.item /\ did.item < CurveOf(did.which).length)
    => did.res.at # "validate"

\* The positions in the log of the last run of the calls of method m.
CallsOf(m) == {i \in 1..Len(ran.log) : ran.log[i].m = m}

\* The last run was made without a 'prefix' entry: file_name_kwargs was
\* left out, or the dict written in the call has no 'prefix' key.
MadeWithoutPrefix ==
    \/ ran.how = "omitted"
    \/ ran.how = "literal" /\ ~DictHas(ran.given, "prefix")

\* C24: DAQ.run file-name prefix: in any sequence of DAQ.run calls, every
\* call made without a 'prefix' entry in file_name_kwargs (calls that omit
\* file_name_kwargs included) and that reaches procedure.file_name calls it
\* with prefix equal to the call's own procedure_type, whichever calls
\* came before it.
RunPrefixIsOwnType ==
    (/\ ran.op = "run"
     /\ MadeWithoutPrefix
     /\ CallsOf("file_name") # {})
    => /\ DictHas(ran.log[2].kw, "prefix")
       /\ DictGet(ran.log[2].kw, "prefix") = ran.procedure_type

\* C25: DAQ.run lifecycle: in every DAQ.run call that reaches
\* procedure.startup(), procedure.shutdown() is called exactly once and
\* after startup and execute, whether they return or raise; execute() is
\* called only if startup() returned; file_name(...) is called before
\* startup(); and if a Parameter of the procedure class has no default, the
\* call fails before the procedure is instantiated: no call of the
\* procedure is made.
RunLifecycle ==
    ran.op = "run" =>
        /\ CallsOf("startup") # {} =>
              /\ Cardinality(CallsOf("shutdown")) = 1
              /\ \A i \in CallsOf("shutdown"), j \in CallsOf("startup") \cup CallsOf("execute") :
                    j < i
              /\ \E i \in CallsOf("file_name") : \A j \in CallsOf("startup") : i < j
        /\ CallsOf("execute") # {} =>
              /\ "startup" \notin ran.raises
              /\ \E j \in CallsOf("startup") : \A i \in CallsOf("execute") : j < i
        /\ (/\ DictHas(ConfigProcedures, ran.procedure_type)
            /\ ~AllHaveDefaults(procedures[DictGet(ConfigProcedures, ran.procedure_type)]))
           => /\ ran.res.exc # ""
              /\ ran.log = <<>>

\* startup has raised, execute was not called and shutdown was still called.
RunLifecycleWitness ==
    /\ ran.op = "run"
    /\ "startup" \in ran.raises
    /\ CallsOf("startup") # {}
    /\ CallsOf("execute") = {}
    /\ CallsOf("shutdown") # {}
    /\ ran.res = Raise("Exception", "startup")

\* A Parameter without a default has stopped a run before any call.
RunLifecycleNoDefault ==
    /\ ran.op = "run"
    /\ ran.res = Raise("AssertionError", "defaults")
    /\ ran.log = <<>>

\* C27: temperature history consistency: after any sequence of
\* TemperatureUpdater.update calls the time_stamps and temperatures
\* histories have equal length, never above 1440; they hold the latest
\* appends in order, each temperature beside the time of its own update
\* (the oldest entries are those dropped, from both); and an update whose
\* temperature reading is NaN, or whose daq or thermometer lacks a reading
\* attribute, leaves both histories as they were.
TemperatureHistoryConsistent ==
    /\ [](/\ Len(time_stamps) = Len(temperatures)
          /\ Len(time_stamps) <= MaxHistory
          /\ Len(time_stamps) = IF now < MaxHistory THEN now ELSE MaxHistory
          /\ \A i \in 1..Len(time_stamps) :
                /\ time_stamps[i] = now - Len(time_stamps) + i
                /\ temperatures[i] = Real(1000 * time_stamps[i]))
    /\ [][(/\ updated'.op = "update"
           /\ \/ updated'.temperature.t \in {"nan", "absent"}
              \/ updated'.resistance.t = "absent")
          => /\ time_stamps' = time_stamps
             /\ temperatures' = temperatures]_vars

\* The histories are full, their oldest entries have been dropped, and the
\* last update read NaN.
TemperatureHistoryWitness ==
    /\ Len(time_stamps) = MaxHistory
    /\ Len(temperatures) = MaxHistory
    /\ time_stamps[1] > 1
    /\ updated.op = "update"
    /\ IsNaN(updated.temperature)
    /\ updated.exc = ""


=============================================================================
